---- MODULE Spec2Model ----
(***************************************************************************)
(* keenetic-dns2vpn: the DNS resolution proxy, the router (RCI) client and *)
(* the resolution dispatcher, modelled from the TypeScript sources.        *)
(*                                                                         *)
(* The module holds nine state machines over disjoint variables:           *)
(*   SpecProxy     DnsProxy (both implementations found in the sources)    *)
(*   SpecApi       KeeneticApi, one public operation per step              *)
(*   SpecDispatch  the onLine handler of main.ts                           *)
(*   SpecRace      KeeneticApi shared by concurrent callers                *)
(*   SpecOptimizer the functions of route-optimizer.ts on route tables     *)
(*   SpecSystem    dispatcher, optimization job and UI on one router       *)
(*   SpecJob       the optimization job interleaved with dispatch handlers *)
(*   SpecMatcher   the functions of matcher.ts on host names and patterns  *)
(*   SpecDot       DnsOverTlsClient.query, one socket or timer event a step *)
(* SpecFirstMatch runs the dispatcher on fewer lines; SpecLog runs the     *)
(* proxy with the log file creation its constructor starts; SpecRuns runs  *)
(* the optimization job as often as its timer starts it; SpecLines runs    *)
(* the onLine handlers one router call per step, on a router that may      *)
(* fail or stay silent.                                                    *)
(* Host names, service names and comments are tuples of one-character      *)
(* strings; IPv4 addresses are their 32-bit values (0 is 0.0.0.0).         *)
(***************************************************************************)
EXTENDS Integers, Sequences, FiniteSets, TLC

VARIABLES
    \* ---- DnsProxy ----
    impl,          \* which DnsProxy source is running
    protocol,      \* config.upstreamServers[0].protocol
    hostToIpMap,   \* DnsProxy.hostToIpMap
    mapLoaded,     \* loadHostToIpMap has run
    listening,     \* the UDP server loop is alive
    arrived,       \* number of datagrams received so far
    req,           \* per datagram: the position of its handler
    responses,     \* per datagram: the responses sent with server.send
    upstreamSent,  \* datagrams for which an upstream query was sent
    appendCalls,   \* history of logResolvedHost invocations
    logFile,       \* content of the resolution event log
    logCreated,    \* the fs.writeFile of the constructor has run
    dbRecords,     \* dns_requests rows, by id
    dbUp,          \* the database currently accepts queries
    \* ---- KeeneticApi ----
    cookies,       \* KeeneticApi.cookies
    router,        \* how the router currently answers
    routerRoutes,  \* the router's static route table
    httpLog,       \* requests sent by the last operation
    lastCall,      \* the last public operation and what it gave back
    calls,         \* number of public operations performed
    \* ---- dispatcher ----
    matchers,      \* main.ts matchers
    services,      \* the service registry (getServiceByName)
    tableRoutes,   \* what api.getRoutes() returns to the dispatcher
    addCalls,      \* history of api.addStaticRoutesForService calls
    dispatched,    \* history of handled resolution events
    \* ---- KeeneticApi shared by concurrent callers ----
    sharedCookies, \* KeeneticApi.cookies (0: '', n: the cookie of session n)
    pc,            \* per caller: the await its operation is suspended at
    inFlight,      \* per caller: the cookie of its request in flight
    captured,      \* per caller: the session of the 401 it answered, 0 if none
    loggedIn,      \* per caller: its login POST was accepted
    issued,        \* number of sessions the router has opened
    authed,        \* sessions the router has authenticated
    wire,          \* history of the requests sent
    started,       \* number of operations started
    \* ---- route optimizer applied to a route table ----
    inRoutes,      \* the route table handed to the optimizer
    inPrefix,      \* the service comment prefix
    optimized,     \* result of optimizeRoutes(inRoutes, inPrefix)
    stats,         \* calculateOptimizationStats of that result
    reoptimized,   \* result of optimizeRoutes on the table with the result applied
    coverage,      \* result of isIpCoveredByOptimizedRoutes for one address
    \* ---- dispatcher, optimization job and UI against one router ----
    sysServices,   \* the service registry
    sysTable,      \* the router's route table
    sysCookies,    \* KeeneticApi.cookies
    sysCommands,   \* history of the route commands sent to the router
    sysSteps,      \* number of handlers run
    \* ---- optimization job interleaved with dispatch handlers ----
    runTable,      \* the router's route table
    runPc,         \* position of optimizeServiceRoutes
    runSnapshot,   \* allRoutes, as read at the start of the run
    runToRemove,   \* routesToRemove not yet handed to the router
    runToAdd,      \* routesToAdd not yet handed to the router
    runCount,      \* number of runs started
    linesPending,  \* onLine handlers suspended after their getRoutes
    linesStarted,  \* number of onLine handlers started
    runs,          \* the calls of optimizeServiceRoutes, overlapping ones included
    handlers,      \* the calls of onLine, one per line of the log, in order
    \* ---- domain matcher applied to a host name and a pattern ----
    matchHostname, \* logEntry.hostname
    matchPattern,  \* m.pattern
    matchResult,   \* what the two rules and the dispatcher's test gave
    \* ---- DnsOverTlsClient.query ----
    dotQuery,      \* the query buffer
    dotStream,     \* bytes the server has still to send
    dotSocket,     \* state of the TLS socket
    dotWritten,    \* bytes written to the socket
    responseBuffer,\* query(): responseBuffer
    expectedLength,\* query(): expectedLength, -1 for null
    timeoutId,     \* state of the timer set with setTimeout
    dotCalls,      \* the resolve and reject calls made, in order
    dotEvents      \* history of the socket and timer events

proxyVars == <<impl, protocol, hostToIpMap, mapLoaded, listening, arrived, req,
               responses, upstreamSent, appendCalls, logFile, logCreated, dbRecords,
               dbUp>>
apiVars == <<cookies, router, routerRoutes, httpLog, lastCall, calls>>
dispatchVars == <<matchers, services, tableRoutes, addCalls, dispatched>>
raceVars == <<sharedCookies, pc, inFlight, captured, loggedIn, issued, authed, wire, started>>
optVars == <<inRoutes, inPrefix, optimized, stats, reoptimized, coverage>>
sysVars == <<sysServices, sysTable, sysCookies, sysCommands, sysSteps>>
jobVars == <<runTable, runPc, runSnapshot, runToRemove, runToAdd, runCount,
             linesPending, linesStarted, runs, handlers>>
matchVars == <<matchHostname, matchPattern, matchResult>>
dotVars == <<dotQuery, dotStream, dotSocket, dotWritten, responseBuffer, expectedLength,
             timeoutId, dotCalls, dotEvents>>
vars == <<proxyVars, apiVars, dispatchVars, raceVars, optVars, sysVars,
          jobVars, matchVars, dotVars>>

----------------------------------------------------------------------------
(* Bounds *)
MaxDatagrams == 2
MaxCalls == 2
MaxEvents == 2
MaxCallers == 2
MaxStarted == 3
MaxRoutes == 3
MaxSteps == 3

----------------------------------------------------------------------------
(* Generic helpers *)

Range(s) == {s[i] : i \in 1..Len(s)}

RECURSIVE SeqMap(_, _)
SeqMap(F(_), s) == IF s = <<>> THEN <<>> ELSE <<F(Head(s))>> \o SeqMap(F, Tail(s))

RECURSIVE SeqFilter(_, _)
SeqFilter(P(_), s) ==
    IF s = <<>> THEN <<>>
    ELSE (IF P(Head(s)) THEN <<Head(s)>> ELSE <<>>) \o SeqFilter(P, Tail(s))

RECURSIVE FlatMap(_, _)
FlatMap(F(_), s) == IF s = <<>> THEN <<>> ELSE F(Head(s)) \o FlatMap(F, Tail(s))

\* v, named once and evaluated once
With(v, F(_)) == CHOOSE y \in {F(x) : x \in {v}} : TRUE

StartsWith(s, p) == Len(p) <= Len(s) /\ SubSeq(s, 1, Len(p)) = p

Includes(s, sub) ==
    \E i \in 1..(Len(s) + 1) : i + Len(sub) - 1 <= Len(s) /\ SubSeq(s, i, i + Len(sub) - 1) = sub

----------------------------------------------------------------------------
(* DnsProxy: data *)

NameA == <<"a", ".", "c">>
NameB == <<"b", ".", "c">>
ClientIp == <<"1", "0">>

FLAGS_RESPONSE == 33152   \* 0x8180
FLAGS_SERVFAIL == 33154   \* 0x8182
OVERRIDE_TTL == 300

\* The datagrams the model feeds to the server: one that dns-packet cannot
\* decode, one that decodes to a packet without question, and queries.
Datagrams ==
    {[kind |-> "garbage", id |-> 0, name |-> <<>>, type |-> "A"],
     [kind |-> "noquestion", id |-> 1, name |-> <<>>, type |-> "A"]}
    \cup {[kind |-> "query", id |-> 1, name |-> NameA, type |-> "A"],
          [kind |-> "query", id |-> 2, name |-> NameA, type |-> "AAAA"]}

\* dnsPacket.decode of an inbound datagram: throws (ok = FALSE) or yields
\* the id and the list of questions
decode(msg) ==
    [ok |-> msg.kind # "garbage",
     id |-> msg.id,
     questions |-> IF msg.kind = "query"
                   THEN <<[name |-> msg.name, type |-> msg.type, class |-> "IN"]>>
                   ELSE <<>>]

\* Host-override files: a line is a comment, or the whitespace-separated
\* tokens host ip...; a blank line has no host
HostLine(c, h, ips) == [comment |-> c, host |-> h, ips |-> ips]
HostFiles ==
    { << HostLine(TRUE, NameB, <<7>>), HostLine(FALSE, NameA, <<3>>),
         HostLine(FALSE, <<>>, <<>>), HostLine(FALSE, NameB, <<>>),
         HostLine(FALSE, NameA, <<9, 0, 8>>) >> }

MapSet(m, k, v) == [x \in (DOMAIN m) \cup {k} |-> IF x = k THEN v ELSE m[x]]

RECURSIVE LoadLines(_, _)
LoadLines(lines, map) ==
    IF lines = <<>> THEN map
    ELSE LET l == Head(lines)
         IN  IF l.comment \/ l.host = <<>> THEN LoadLines(Tail(lines), map)
             ELSE IF Len(l.ips) > 0
                  THEN LoadLines(Tail(lines), MapSet(map, l.host, l.ips))
                  ELSE LoadLines(Tail(lines), map)

EmptyMap == [x \in {} |-> <<>>]

\* upstream answers
Ans(t, d) == [type |-> t, data |-> d]
AnswerLists ==
    { <<>>, <<Ans("A", 0)>>,
      <<Ans("CNAME", 1), Ans("A", 6), Ans("AAAA", 2), Ans("A", 5)>> }

\* what the upstream socket delivers for the query of msg: a buffer that
\* does not decode, or a response echoing id and question
UpstreamReplies(msg) ==
    {[ok |-> FALSE, id |-> 0, questions |-> <<>>, flags |-> 0, answers |-> <<>>]}
    \cup {[ok |-> TRUE, id |-> msg.id, questions |-> decode(msg).questions,
           flags |-> FLAGS_RESPONSE, answers |-> a] : a \in AnswerLists}

\* errors a transport rejects with (other than its timer): message and
\* whether that message contains 'timeout'
TransportErrors(proto) ==
    IF proto = "dot"
    THEN {[message |-> "tls error", timeout |-> FALSE],
          [message |-> "Connection closed before receiving complete response", timeout |-> FALSE]}
    ELSE {[message |-> "socket error", timeout |-> FALSE]}

TimeoutError(proto) ==
    IF proto = "dot"
    THEN [message |-> "DNS over TLS request timeout after Nms", timeout |-> TRUE]
    ELSE [message |-> "DNS request timeout after Nms", timeout |-> TRUE]

DecodeError == [message |-> "decode error", timeout |-> FALSE]

FreeReq == [st |-> "free", msg |-> [kind |-> "garbage", id |-> 0, name |-> <<>>, type |-> "A"],
            clientIp |-> <<>>, requestId |-> -1, outcome |-> "none"]

Slots == 1..MaxDatagrams

----------------------------------------------------------------------------
(* DnsProxy: the pieces of handleDnsRequest *)

\* DnsRequestLogger.logPendingRequest: the id of the inserted row, or -1
\* when the insert throws
logPendingRequest(db, up) == IF up THEN Len(db) + 1 ELSE -1

InsertPending(db, up, clientIp, question) ==
    IF up
    THEN Append(db, [client_ip |-> clientIp, hostname |-> question.name,
                     query_type |-> question.type, status |-> "pending",
                     resolved_ips |-> <<>>, error_message |-> "null",
                     response_time_ms |-> "null"])
    ELSE db

\* DnsRequestLogger.updateResolved
updateResolved(db, up, id, resolvedIps) ==
    IF id < 0 \/ ~up THEN db
    ELSE [db EXCEPT ![id] = [@ EXCEPT !.status = "resolved",
                                      !.resolved_ips = resolvedIps,
                                      !.response_time_ms = "elapsed"]]

\* DnsRequestLogger.updateFailed
updateFailed(db, up, id, errorMessage) ==
    IF id < 0 \/ ~up THEN db
    ELSE [db EXCEPT ![id] = [@ EXCEPT !.status = "failed",
                                      !.error_message = errorMessage,
                                      !.response_time_ms = "elapsed"]]

\* the answers of a locally synthesized response
OverrideAnswer(name, ip) ==
    [type |-> "A", name |-> name, ttl |-> OVERRIDE_TTL, class |-> "IN", data |-> ip]

overrideAnswersReversed(name, mappedIps) ==
    [i \in 1..Len(mappedIps) |-> OverrideAnswer(name, mappedIps[Len(mappedIps) + 1 - i])]

overrideAnswers(name, mappedIps) ==
    [i \in 1..Len(mappedIps) |-> OverrideAnswer(name, mappedIps[i])]

overrideResponse(query, question, mappedIps) ==
    [id |-> query.id, type |-> "response", flags |-> FLAGS_RESPONSE,
     questions |-> <<question>>,
     answers |-> overrideAnswers(question.name, mappedIps)]

servfailResponse(query, question) ==
    [id |-> query.id, type |-> "response", flags |-> FLAGS_SERVFAIL,
     questions |-> <<question>>, answers |-> <<>>]

\* the upstream buffer is relayed unchanged; this is what it decodes to
relayedResponse(reply) ==
    [id |-> reply.id, type |-> "response", flags |-> reply.flags,
     questions |-> reply.questions,
     answers |-> [i \in 1..Len(reply.answers) |->
                    [type |-> reply.answers[i].type, name |-> <<>>, ttl |-> 0,
                     class |-> "IN", data |-> reply.answers[i].data]]]

IsA(a) == a.type = "A"
AnswerData(a) == a.data

resolvedIpsAll(answers) == SeqMap(AnswerData, answers)

resolvedIpsOf(answers) == SeqMap(AnswerData, SeqFilter(IsA, answers))

\* the catch block's errorMessage
failureMessage(error) ==
    IF error.timeout THEN "Timeout after Nms" ELSE error.message

\* logResolvedHost: the line appended to the event log
logEntry(clientIp, hostname, ips) ==
    [ts |-> "now", clientIp |-> clientIp, hostname |-> hostname, ips |-> ips]

\* the try/catch around handleDnsRequest in setupServer: the error is
\* logged and the server keeps listening
setupServerNoCatch(alive) == FALSE

setupServerCatch(alive) == alive

HasOverride(question) ==
    question.type = "A" /\ question.name \in DOMAIN hostToIpMap

----------------------------------------------------------------------------
(* DnsProxy: actions *)

ProxyInit ==
    /\ impl \in {"part_013", "dns-proxy.ts"}
    /\ protocol \in (IF impl = "part_013" THEN {"udp", "dot"} ELSE {"udp"})
    /\ hostToIpMap = EmptyMap
    /\ mapLoaded = FALSE
    /\ listening = TRUE
    /\ arrived = 0
    /\ req = [s \in Slots |-> FreeReq]
    /\ responses = [s \in Slots |-> <<>>]
    /\ upstreamSent = {}
    /\ appendCalls = <<>>
    /\ logFile = <<>>
    /\ dbRecords = <<>>
    /\ dbUp = TRUE

\* loadHostToIpMap, started by the constructor: the file is read and parsed,
\* or reading fails and the map stays empty
loadHostToIpMap ==
    /\ UNCHANGED <<apiVars, dispatchVars, raceVars, optVars, sysVars, jobVars, matchVars, dotVars>>
    /\ UNCHANGED logCreated
    /\ ~mapLoaded
    /\ mapLoaded' = TRUE
    /\ \/ \E file \in HostFiles : hostToIpMap' = LoadLines(file, EmptyMap)
       \/ hostToIpMap' = hostToIpMap
    /\ UNCHANGED <<impl, protocol, listening, arrived, req, responses,
                   upstreamSent, appendCalls, logFile, dbRecords, dbUp>>

\* fs.writeFile(this.logResolvedToFile, ''), started by the constructor and
\* not awaited: the file is opened with flag 'w', which empties it
createLogFile ==
    /\ UNCHANGED <<apiVars, dispatchVars, raceVars, optVars, sysVars, jobVars, matchVars, dotVars>>
    /\ ~logCreated
    /\ logCreated' = TRUE
    /\ logFile' = <<>>
    /\ UNCHANGED <<impl, protocol, hostToIpMap, mapLoaded, listening, arrived, req,
                   responses, upstreamSent, appendCalls, dbRecords, dbUp>>

\* environment: the database stops accepting queries
DbDown ==
    /\ UNCHANGED <<apiVars, dispatchVars, raceVars, optVars, sysVars, jobVars, matchVars, dotVars>>
    /\ UNCHANGED logCreated
    /\ impl = "part_013"
    /\ dbUp
    /\ dbUp' = FALSE
    /\ UNCHANGED <<impl, protocol, hostToIpMap, mapLoaded, listening, arrived,
                   req, responses, upstreamSent, appendCalls, logFile, dbRecords>>

\* fs.appendFile inside logResolvedHost: the line is written, or the write
\* fails and the error is logged
AppendToLog(slot, clientIp, hostname, ips) ==
    /\ appendCalls' = Append(appendCalls,
            [slot |-> slot, clientIp |-> clientIp, hostname |-> hostname, ips |-> ips])
    /\ \/ logFile' = Append(logFile, logEntry(clientIp, hostname, ips))
       \/ logFile' = logFile

\* server.on('message'): decode, then answer from the override map or send
\* the query upstream
OnMessage(msg) ==
    /\ UNCHANGED <<apiVars, dispatchVars, raceVars, optVars, sysVars, jobVars, matchVars, dotVars>>
    /\ UNCHANGED logCreated
    /\ listening
    /\ arrived < MaxDatagrams
    /\ arrived' = arrived + 1
    /\ LET s == arrived + 1
           query == decode(msg)
           db == impl = "part_013"
       IN  \/ \* decode throws, or there is no question
              /\ ~query.ok \/ query.questions = <<>>
              /\ req' = [req EXCEPT ![s] = [st |-> "done", msg |-> msg, clientIp |-> ClientIp,
                                            requestId |-> -1, outcome |-> "thrown"]]
              /\ listening' = setupServerCatch(listening)
              /\ UNCHANGED <<responses, upstreamSent, appendCalls, logFile, dbRecords>>
           \/ \* static override
              /\ query.ok /\ query.questions # <<>>
              /\ HasOverride(query.questions[1])
              /\ LET question == query.questions[1]
                     requestId == IF db THEN logPendingRequest(dbRecords, dbUp) ELSE -1
                     mappedIps == hostToIpMap[question.name]
                     db1 == IF db THEN InsertPending(dbRecords, dbUp, ClientIp, question)
                            ELSE dbRecords
                 IN  /\ AppendToLog(s, ClientIp, question.name, mappedIps)
                     /\ dbRecords' = IF db THEN updateResolved(db1, dbUp, requestId, mappedIps)
                                     ELSE db1
                     /\ responses' = [responses EXCEPT
                            ![s] = Append(@, overrideResponse(query, question, mappedIps))]
                     /\ req' = [req EXCEPT ![s] = [st |-> "done", msg |-> msg,
                                   clientIp |-> ClientIp, requestId |-> requestId,
                                   outcome |-> "override"]]
              /\ UNCHANGED <<listening, upstreamSent>>
           \/ \* forwarded to upstreamServers[0]
              /\ query.ok /\ query.questions # <<>>
              /\ ~HasOverride(query.questions[1])
              /\ LET question == query.questions[1]
                     requestId == IF db THEN logPendingRequest(dbRecords, dbUp) ELSE -1
                 IN  /\ dbRecords' = IF db THEN InsertPending(dbRecords, dbUp, ClientIp, question)
                                     ELSE dbRecords
                     /\ req' = [req EXCEPT ![s] = [st |-> "upstream", msg |-> msg,
                                   clientIp |-> ClientIp, requestId |-> requestId,
                                   outcome |-> "none"]]
              /\ upstreamSent' = upstreamSent \cup {s}
              /\ UNCHANGED <<listening, responses, appendCalls, logFile>>
    /\ UNCHANGED <<impl, protocol, hostToIpMap, mapLoaded, dbUp>>

\* the catch block of handleDnsRequest. part_013 answers SERVFAIL and marks
\* the row failed; dns-proxy.ts rethrows, and setupServer logs the error
HandleFailure(s, error) ==
    LET query == decode(req[s].msg)
        question == query.questions[1]
    IN  IF impl = "part_013"
        THEN /\ dbRecords' = updateFailed(dbRecords, dbUp, req[s].requestId, failureMessage(error))
             /\ responses' = [responses EXCEPT ![s] = Append(@, servfailResponse(query, question))]
             /\ req' = [req EXCEPT ![s].st = "done", ![s].outcome = "failed"]
             /\ UNCHANGED listening
        ELSE /\ req' = [req EXCEPT ![s].st = "done", ![s].outcome = "thrown"]
             /\ listening' = setupServerCatch(listening)
             /\ UNCHANGED <<dbRecords, responses>>

\* the upstream socket delivers a buffer
UpstreamMessage(s, reply) ==
    /\ UNCHANGED <<apiVars, dispatchVars, raceVars, optVars, sysVars, jobVars, matchVars, dotVars>>
    /\ UNCHANGED logCreated
    /\ req[s].st = "upstream"
    /\ reply \in UpstreamReplies(req[s].msg)
    /\ \/ /\ ~reply.ok
          /\ HandleFailure(s, DecodeError)
          /\ UNCHANGED <<appendCalls, logFile>>
       \/ /\ reply.ok
          /\ LET question == decode(req[s].msg).questions[1]
                 resolvedIps == resolvedIpsOf(reply.answers)
             IN  /\ IF Len(resolvedIps) > 0
                    THEN AppendToLog(s, req[s].clientIp, question.name, resolvedIps)
                    ELSE UNCHANGED <<appendCalls, logFile>>
                 /\ dbRecords' = IF impl = "part_013"
                                 THEN updateResolved(dbRecords, dbUp, req[s].requestId, resolvedIps)
                                 ELSE dbRecords
                 /\ responses' = [responses EXCEPT ![s] = Append(@, relayedResponse(reply))]
                 /\ req' = [req EXCEPT ![s].st = "done", ![s].outcome = "resolved"]
          /\ UNCHANGED listening
    /\ UNCHANGED <<impl, protocol, hostToIpMap, mapLoaded, arrived, upstreamSent, dbUp>>

\* the transport reports an error (socket 'error', TLS error, early close)
UpstreamError(s, error) ==
    /\ UNCHANGED <<apiVars, dispatchVars, raceVars, optVars, sysVars, jobVars, matchVars, dotVars>>
    /\ UNCHANGED logCreated
    /\ req[s].st = "upstream"
    /\ error \in TransportErrors(protocol)
    /\ HandleFailure(s, error)
    /\ UNCHANGED <<impl, protocol, hostToIpMap, mapLoaded, arrived, upstreamSent,
                   appendCalls, logFile, dbUp>>

\* the timer set by queryUpstreamUdp / DnsOverTlsClient.query expires;
\* dns-proxy.ts sets no timer
UpstreamTimeout(s) ==
    /\ UNCHANGED <<apiVars, dispatchVars, raceVars, optVars, sysVars, jobVars, matchVars, dotVars>>
    /\ UNCHANGED logCreated
    /\ impl = "part_013"
    /\ req[s].st = "upstream"
    /\ HandleFailure(s, TimeoutError(protocol))
    /\ UNCHANGED <<impl, protocol, hostToIpMap, mapLoaded, arrived, upstreamSent,
                   appendCalls, logFile, dbUp>>

ProxyNext ==
    \/ loadHostToIpMap
    \/ DbDown
    \/ \E msg \in Datagrams : OnMessage(msg)
    \/ \E s \in Slots : \E reply \in UpstreamReplies(req[s].msg) : UpstreamMessage(s, reply)
    \/ \E s \in Slots : \E error \in TransportErrors(protocol) : UpstreamError(s, error)
    \/ \E s \in Slots : UpstreamTimeout(s)

\* the server together with the file creation of the constructor
LogNext ==
    \/ createLogFile
    \/ ProxyNext

----------------------------------------------------------------------------
(* KeeneticApi: the router as the client sees it *)

RouterInterfaces == {"wg0", "wg1"}

BlankItem ==
    [isObj |-> TRUE, hasRoute |-> FALSE, status |-> <<>>, hasTable |-> FALSE,
     table |-> <<>>, type |-> "", id |-> "", description |-> "", connected |-> "",
     ip |-> -1, name |-> ""]

NoData == [kind |-> "none", items |-> <<>>]
\* the body { error: <message> } that getRequest/postRequest make up when
\* fetch throws: an object whose only value is a string
ErrorData == [kind |-> "object", items |-> <<[BlankItem EXCEPT !.isObj = FALSE]>>]
NoHeaders == [realm |-> "", challenge |-> "", setCookie |-> ""]

NoBody == [kind |-> "none", login |-> <<>>, commands |-> <<>>]

\* a route of the router's table; -1 stands for an absent host/network/mask
HostRoute(h, iface, c) ==
    [host |-> h, network |-> -1, mask |-> -1, interface |-> iface,
     comment |-> c, hasComment |-> TRUE]
NetRoute(n, m, iface, c) ==
    [host |-> -1, network |-> n, mask |-> m, interface |-> iface,
     comment |-> c, hasComment |-> TRUE]

\* a command of a batch
Cmd(no, h, n, m, iface, c) ==
    [no |-> no, host |-> h, network |-> n, mask |-> m, interface |-> iface, comment |-> c]

SameTarget(r, c) ==
    IF c.network # -1 /\ c.mask # -1 THEN r.network = c.network /\ r.mask = c.mask
    ELSE r.host = c.host

\* the router runs one command of a batch: the table afterwards and the
\* status entries it reports for the command
RouterRun(table, c) ==
    LET NotTarget(r) == ~(SameTarget(r, c) /\ r.hasComment /\ r.comment = c.comment)
        IsTarget(r) == ~NotTarget(r)
        what == IF c.host # -1 THEN ToString(c.host) ELSE ToString(c.network)
    IN  IF c.no
        THEN IF SeqFilter(IsTarget, table) = <<>>
             THEN [table |-> table,
                   status |-> <<[status |-> "error", message |-> <<"no such route", what>>]>>]
             ELSE [table |-> SeqFilter(NotTarget, table),
                   status |-> <<[status |-> "message", message |-> <<"deleted", what>>]>>]
        ELSE IF c.interface \notin RouterInterfaces
             THEN [table |-> table,
                   status |-> <<[status |-> "error", message |-> <<"rejected", what, c.interface>>],
                                [status |-> "error", message |-> <<"no such interface">>]>>]
             ELSE [table |-> Append(SeqFilter(NotTarget, table),
                                    [host |-> c.host, network |-> c.network, mask |-> c.mask,
                                     interface |-> c.interface, comment |-> c.comment,
                                     hasComment |-> TRUE]),
                   status |-> <<[status |-> "message", message |-> <<"added", what, c.interface>>]>>]

RECURSIVE RouterBatch(_, _)
RouterBatch(table, commands) ==
    IF commands = <<>> THEN [table |-> table, items |-> <<>>]
    ELSE With(RouterRun(table, Head(commands)), LAMBDA one :
         With(RouterBatch(one.table, Tail(commands)), LAMBDA rest :
            [table |-> rest.table,
             items |-> <<[BlankItem EXCEPT !.hasRoute = TRUE, !.status = one.status]>>
                       \o rest.items]))

RouterClients ==
    <<[BlankItem EXCEPT !.ip = 0, !.name = "offline"],
      [BlankItem EXCEPT !.ip = 7, !.name = "laptop"]>>

RouterIfaceList ==
    <<[BlankItem EXCEPT !.type = "Wireguard", !.id = "Wireguard0",
                        !.description = "wg0", !.connected = "yes"],
      [BlankItem EXCEPT !.type = "Bridge", !.id = "Bridge0",
                        !.description = "home", !.connected = "yes"]>>

Answer(st, h, d, t) == [net |-> FALSE, status |-> st, headers |-> h, data |-> d, table |-> t]
NetworkFailure(t) == [net |-> TRUE, status |-> 0, headers |-> NoHeaders, data |-> NoData, table |-> t]

Degraded(mode, t) ==
    IF mode = "network" THEN NetworkFailure(t) ELSE Answer(401, NoHeaders, NoData, t)

\* what the router does with one HTTP request, in the mode r it is in
RouterAnswer(r, request, table) ==
    IF request.path = "/auth" /\ request.method = "GET"
    THEN CASE r.auth = "active" -> Answer(200, NoHeaders, NoData, table)
           [] r.auth = "challenge" ->
                Answer(401, [realm |-> "realm1", challenge |-> "chal1", setCookie |-> "sid"],
                       NoData, table)
           [] r.auth = "challenge2" ->
                Answer(401, [realm |-> "realm2", challenge |-> "chal2", setCookie |-> "sid2"],
                       NoData, table)
           [] r.auth = "noheaders" -> Answer(401, NoHeaders, NoData, table)
           [] r.auth = "nochallenge" ->
                Answer(401, [realm |-> "realm1", challenge |-> "", setCookie |-> "sid3"],
                       NoData, table)
           [] r.auth = "unexpected" -> Answer(503, NoHeaders, NoData, table)
           [] OTHER -> NetworkFailure(table)
    ELSE IF request.path = "/auth"
    THEN IF r.login = "ok" THEN Answer(200, NoHeaders, NoData, table)
         ELSE Answer(401, NoHeaders, NoData, table)
    ELSE IF request.path = "/rci/show/interface"
    THEN IF r.show = "ok"
         THEN Answer(200, NoHeaders, [kind |-> "object", items |-> RouterIfaceList], table)
         ELSE Degraded(r.show, table)
    ELSE IF request.path = "/rci/show/ip/hotspot/host"
    THEN IF r.show = "ok"
         THEN Answer(200, NoHeaders, [kind |-> "array", items |-> RouterClients], table)
         ELSE Degraded(r.show, table)
    ELSE IF request.body.kind = "showroutes"
    THEN IF r.show = "ok"
         THEN Answer(200, NoHeaders,
                     [kind |-> "array",
                      items |-> <<[BlankItem EXCEPT !.hasTable = TRUE, !.table = table]>>],
                     table)
         ELSE Degraded(r.show, table)
    ELSE IF r.write = "ok"
         THEN With(RouterBatch(table, request.body.commands), LAMBDA run :
                Answer(200, NoHeaders,
                       [kind |-> "array", items |-> <<BlankItem>> \o run.items \o <<BlankItem>>],
                       run.table))
         ELSE Degraded(r.write, table)

Mode(a, l, s, w) == [auth |-> a, login |-> l, show |-> s, write |-> w]

\* the ways the router answers during one operation: healthy with or
\* without a live session; each way the auth check can fail (the router
\* then refuses the real request, or, for a passing fault, serves it);
\* reads or writes failing with a live session; the network down
RouterModes ==
    { Mode("active", "ok", "ok", "ok"),
      Mode("challenge", "ok", "ok", "ok"),
      Mode("challenge2", "ok", "ok", "ok"),
      Mode("challenge", "rejected", "status401", "status401"),
      Mode("noheaders", "ok", "status401", "status401"),
      Mode("nochallenge", "ok", "status401", "status401"),
      Mode("unexpected", "ok", "ok", "ok"),
      Mode("network", "ok", "network", "network"),
      Mode("active", "ok", "status401", "ok"),
      Mode("active", "ok", "network", "ok"),
      Mode("active", "ok", "ok", "status401"),
      Mode("challenge", "ok", "ok", "network") }

----------------------------------------------------------------------------
(* KeeneticApi: the client.  Every operator threads a context             *)
(* [cookies, log, table, r]: this.cookies, the requests sent so far (with  *)
(* the status each got), the router's table and the router's mode; and     *)
(* returns the context afterwards with what the method returns.            *)

LOGIN == "u"
PASSWORD == "p"

md5(data) == <<"md5(">> \o data \o <<")">>
sha256(data) == <<"sha256(">> \o data \o <<")">>

\* fetch + the catch block of getRequest / postRequest.  auth is a ghost
\* field: what the ensureAuthenticated that guards this request returned
\* ("none" for the requests ensureAuthenticated sends itself)
Send(ctx, method, path, body, auth) ==
    With([method |-> method, path |-> path, body |-> body, cookie |-> ctx.cookies],
         LAMBDA request :
    With(RouterAnswer(ctx.r, request, ctx.table), LAMBDA ans :
        LET res == IF ans.net
                   THEN [status |-> 500, headers |-> NoHeaders, data |-> ErrorData]
                   ELSE [status |-> ans.status, headers |-> ans.headers, data |-> ans.data]
        IN  [ctx |-> [ctx EXCEPT !.log = Append(@, [method |-> request.method,
                                                     path |-> request.path,
                                                     body |-> request.body,
                                                     cookie |-> request.cookie,
                                                     status |-> res.status,
                                                     headers |-> res.headers,
                                                     auth |-> auth]),
                                 !.table = ans.table],
             res |-> res]))

getRequest(ctx, path, auth) == Send(ctx, "GET", path, NoBody, auth)

postRequest(ctx, path, body, auth) == Send(ctx, "POST", path, body, auth)

performLoginHashOrder(ctx, realm, challenge) ==
    LET md5Hash == md5(<<LOGIN, ":", realm, ":", PASSWORD>>)
        finalPasswordHash == sha256(md5Hash \o <<challenge>>)
        loginPayload == [kind |-> "login", login |-> <<LOGIN>> \o finalPasswordHash,
                         commands |-> <<>>]
    IN  With(postRequest(ctx, "/auth", loginPayload, "none"), LAMBDA response :
            [ctx |-> response.ctx, ret |-> response.res.status = 200])

\* the payload { login, password } is the tuple login, then the password
\* hash; md5 and sha256 (hex digests) are kept as uninterpreted terms
performLogin(ctx, realm, challenge) ==
    LET md5Hash == md5(<<LOGIN, ":", realm, ":", PASSWORD>>)
        finalPasswordHash == sha256(<<challenge>> \o md5Hash)
        loginPayload == [kind |-> "login", login |-> <<LOGIN>> \o finalPasswordHash,
                         commands |-> <<>>]
    IN  With(postRequest(ctx, "/auth", loginPayload, "none"), LAMBDA response :
            [ctx |-> response.ctx, ret |-> response.res.status = 200])

\* this.cookies assigned before the headers are looked at
ensureAuthenticatedCookieFirst(ctx) ==
    With(getRequest(ctx, "/auth", "none"), LAMBDA authCheckResponse :
        LET c1 == authCheckResponse.ctx
            res == authCheckResponse.res
            realm == res.headers.realm
            challenge == res.headers.challenge
            c2 == [c1 EXCEPT !.cookies = res.headers.setCookie]
        IN  IF res.status = 200 THEN [ctx |-> c1, ret |-> TRUE]
            ELSE IF res.status = 401
            THEN IF realm = "" \/ challenge = "" THEN [ctx |-> c2, ret |-> FALSE]
                 ELSE performLogin(c2, realm, challenge)
            ELSE [ctx |-> c1, ret |-> FALSE])

ensureAuthenticated(ctx) ==
    With(getRequest(ctx, "/auth", "none"), LAMBDA authCheckResponse :
        LET c1 == authCheckResponse.ctx
            res == authCheckResponse.res
            realm == res.headers.realm
            challenge == res.headers.challenge
        IN  IF res.status = 200 THEN [ctx |-> c1, ret |-> TRUE]
            ELSE IF res.status = 401
            THEN IF realm = "" \/ challenge = "" THEN [ctx |-> c1, ret |-> FALSE]
                 ELSE With([c1 EXCEPT !.cookies = res.headers.setCookie], LAMBDA c2 :
                          performLogin(c2, realm, challenge))
            ELSE [ctx |-> c1, ret |-> FALSE])

AuthGhost(b) == IF b THEN "ok" ELSE "failed"

\* await this.ensureAuthenticated(); return this.postRequest(path, body)
postWithAuth(ctx, path, body) ==
    With(ensureAuthenticated(ctx), LAMBDA a :
        postRequest(a.ctx, path, body, AuthGhost(a.ret)))

getWithAuth(ctx, path) ==
    With(ensureAuthenticated(ctx), LAMBDA a :
        getRequest(a.ctx, path, AuthGhost(a.ret)))

Join(parts) ==
    FlatMap(LAMBDA i : IF i = 1 THEN parts[i] ELSE <<"; ">> \o parts[i],
            [i \in 1..Len(parts) |-> i])

StatusMessage(st) == st.message

hostCommandsInterfaceMajor(hosts, interfaces, comment) ==
    FlatMap(LAMBDA iface :
                SeqMap(LAMBDA host : Cmd(FALSE, host, -1, -1, iface, comment), hosts),
            interfaces)

\* hosts.flatMap(host => interfaces.map(iface => ...)): host-major,
\* interface-minor
hostCommands(hosts, interfaces, comment) ==
    FlatMap(LAMBDA host :
                SeqMap(LAMBDA iface : Cmd(FALSE, host, -1, -1, iface, comment), interfaces),
            hosts)

networkCommands(network, mask, interfaces, comment) ==
    SeqMap(LAMBDA iface : Cmd(FALSE, -1, network, mask, iface, comment), interfaces)

serviceCommands(service) ==
    IF service.network # -1 /\ service.mask # -1
    THEN networkCommands(service.network, service.mask, service.interfaces, service.comment)
    ELSE hostCommands(service.ips, service.interfaces, service.comment)

Batch(commands) == [kind |-> "batch", login |-> <<>>, commands |-> commands]

\* result.data.slice(1, -1)
slice1(items) == IF Len(items) < 2 THEN <<>> ELSE SubSeq(items, 2, Len(items) - 1)

NoRet == [exc |-> FALSE, bool |-> FALSE, list |-> <<>>]

addStaticRoutesForService(ctx, service) ==
    With(serviceCommands(service), LAMBDA commands :
    With(postWithAuth(ctx, "/rci/", Batch(commands)), LAMBDA result :
        LET data == result.res.data
            inner == slice1(data.items)
            throws == \/ data.kind # "array"
                      \/ \E i \in 1..Len(inner) : ~inner[i].hasRoute
        IN  [ctx |-> result.ctx, reply |-> result.res,
             ret |-> IF throws THEN [NoRet EXCEPT !.exc = TRUE]
                     ELSE [NoRet EXCEPT !.list =
                              SeqMap(LAMBDA command :
                                         Join(SeqMap(StatusMessage, command.status)),
                                     inner)]]))

ShowRoutes == [kind |-> "showroutes", login |-> <<>>, commands |-> <<>>]

\* ok is a ghost: the route table was read from a 200 reply
getRoutes(ctx) ==
    With(ensureAuthenticated(ctx), LAMBDA a :
    With(postWithAuth(a.ctx, "/rci/", ShowRoutes), LAMBDA response :
        LET data == response.res.data
            found == /\ response.res.status = 200
                     /\ data.kind = "array"
                     /\ Len(data.items) > 0
                     /\ data.items[1].hasTable
        IN  [ctx |-> response.ctx, ok |-> found,
             ret |-> IF found THEN data.items[1].table ELSE <<>>]))

deleteCommand(route) ==
    IF route.network # -1 /\ route.mask # -1
    THEN Cmd(TRUE, -1, route.network, route.mask, "", route.comment)
    ELSE Cmd(TRUE, route.host, -1, -1, "", route.comment)

\* fetched, deleted are ghosts: the table was read; the delete batch was
\* sent and got status 200
routesOfAnyComment(routes, commentPrefix) == routes

\* routes.filter(route => route.comment.startsWith(commentPrefix))
routesWithPrefix(routes, commentPrefix) ==
    SeqFilter(LAMBDA route : StartsWith(route.comment, commentPrefix), routes)

removeRoutesByCommentPrefix(ctx, commentPrefix) ==
    With(ensureAuthenticated(ctx), LAMBDA a :
    With(getRoutes(a.ctx), LAMBDA routes :
        LET throws == \E i \in 1..Len(routes.ret) : ~routes.ret[i].hasComment
        IN  IF throws
            THEN [ctx |-> routes.ctx, fetched |-> routes.ok, deleted |-> FALSE,
                  sent |-> FALSE, ret |-> NoRet]
            ELSE With(routesWithPrefix(routes.ret, commentPrefix),
                      LAMBDA routesToRemove :
                 IF Len(routesToRemove) = 0
                 THEN [ctx |-> routes.ctx, fetched |-> routes.ok, deleted |-> FALSE,
                       sent |-> FALSE, ret |-> [NoRet EXCEPT !.bool = TRUE]]
                 ELSE With(postWithAuth(routes.ctx, "/rci/",
                                        Batch(SeqMap(deleteCommand, routesToRemove))),
                           LAMBDA result :
                      [ctx |-> result.ctx, fetched |-> routes.ok,
                       deleted |-> result.res.status = 200, sent |-> TRUE,
                       ret |-> [NoRet EXCEPT !.bool = TRUE]]))))

getInterfaces(ctx, types) ==
    With(getWithAuth(ctx, "/rci/show/interface"), LAMBDA response :
        LET data == response.res.data
            facesWithTypes == SeqFilter(LAMBDA i : i.isObj /\ i.type \in types, data.items)
        IN  [ctx |-> response.ctx,
             ret |-> IF data.kind = "none" THEN [NoRet EXCEPT !.exc = TRUE]
                     ELSE [NoRet EXCEPT !.list =
                              SeqMap(LAMBDA i : [id |-> i.id, name |-> i.description,
                                                 type |-> i.type,
                                                 connected |-> i.connected = "yes"],
                                     facesWithTypes)]])

getClients(ctx) ==
    With(ensureAuthenticated(ctx), LAMBDA a :
    With(getWithAuth(a.ctx, "/rci/show/ip/hotspot/host"), LAMBDA response :
        LET data == response.res.data
        IN  [ctx |-> response.ctx,
             ret |-> IF response.res.status = 200 /\ data.kind = "array"
                     THEN [NoRet EXCEPT !.list =
                              SeqMap(LAMBDA client : [name |-> client.name, ip |-> client.ip],
                                     SeqFilter(LAMBDA client : client.ip # 0, data.items))]
                     ELSE NoRet]))

----------------------------------------------------------------------------
(* KeeneticApi under concurrent callers.  One step runs a caller from one  *)
(* await to the next: the code between two awaits is atomic.  Each caller  *)
(* runs getWithAuth: ensureAuthenticated, then the real request.           *)

Callers == 1..MaxCallers

\* the router's answer to GET /auth: 200 for an authenticated session,
\* otherwise 401 opening a session (realm, challenge and cookie of its own)
AuthCheckStatus(cookie) == IF cookie \in authed THEN 200 ELSE 401

\* this.cookies = authCheckResponse.headers['set-cookie']
capturedCookie(old, setCookie) == setCookie

\* the router accepts a login when its hash answers the challenge of the
\* session its cookie names (and the credentials are right)
LoginAccepted(request, credentialsOk) ==
    credentialsOk /\ request.cookie # 0 /\ request.cookie = request.challenge

Request(c, kind, cookie, challenge, own, ok) ==
    [caller |-> c, kind |-> kind, cookie |-> cookie, challenge |-> challenge,
     own |-> own, afterLogin |-> ok]

RaceInit ==
    /\ sharedCookies = 0
    /\ pc = [c \in Callers |-> "idle"]
    /\ inFlight = [c \in Callers |-> 0]
    /\ captured = [c \in Callers |-> 0]
    /\ loggedIn = [c \in Callers |-> FALSE]
    /\ issued = 0
    /\ authed = {}
    /\ wire = <<>>
    /\ started = 0

\* a caller enters getWithAuth -> ensureAuthenticated -> getRequest('/auth')
\* and is suspended at fetch
RaceStart(c) ==
    /\ UNCHANGED <<proxyVars, apiVars, dispatchVars, optVars, sysVars, jobVars, matchVars, dotVars>>
    /\ pc[c] \in {"idle", "done"}
    /\ started < MaxStarted
    /\ started' = started + 1
    /\ pc' = [pc EXCEPT ![c] = "check"]
    /\ inFlight' = [inFlight EXCEPT ![c] = sharedCookies]
    /\ captured' = [captured EXCEPT ![c] = 0]
    /\ loggedIn' = [loggedIn EXCEPT ![c] = FALSE]
    /\ wire' = Append(wire, Request(c, "check", sharedCookies, 0, 0, FALSE))
    /\ UNCHANGED <<sharedCookies, issued, authed>>

\* the auth check returns.  200: the real request is inFlight at once.  401:
\* the cookie is stored and the login POST is inFlight, with no await between
RaceAuthChecked(c) ==
    /\ UNCHANGED <<proxyVars, apiVars, dispatchVars, optVars, sysVars, jobVars, matchVars, dotVars>>
    /\ pc[c] = "check"
    /\ IF AuthCheckStatus(inFlight[c]) = 200
       THEN /\ pc' = [pc EXCEPT ![c] = "real"]
            /\ inFlight' = [inFlight EXCEPT ![c] = sharedCookies]
            /\ wire' = Append(wire, Request(c, "real", sharedCookies, 0, 0, FALSE))
            /\ UNCHANGED <<sharedCookies, captured, issued>>
       ELSE /\ issued' = issued + 1
            /\ sharedCookies' = capturedCookie(sharedCookies, issued + 1)
            /\ captured' = [captured EXCEPT ![c] = issued + 1]
            /\ pc' = [pc EXCEPT ![c] = "login"]
            /\ inFlight' = [inFlight EXCEPT ![c] = sharedCookies']
            /\ wire' = Append(wire, Request(c, "login", sharedCookies', issued + 1,
                                            issued + 1, FALSE))
    /\ UNCHANGED <<loggedIn, authed, started>>

\* the login POST returns, accepted or not; ensureAuthenticated returns and
\* getWithAuth sends the real request at once
RaceLoginReplied(c, credentialsOk) ==
    /\ UNCHANGED <<proxyVars, apiVars, dispatchVars, optVars, sysVars, jobVars, matchVars, dotVars>>
    /\ pc[c] = "login"
    /\ LET request == [cookie |-> inFlight[c], challenge |-> captured[c]]
           ok == LoginAccepted(request, credentialsOk)
       IN  /\ authed' = IF ok THEN authed \cup {inFlight[c]} ELSE authed
           /\ loggedIn' = [loggedIn EXCEPT ![c] = ok]
           /\ wire' = Append(wire, Request(c, "real", sharedCookies, 0, captured[c], ok))
    /\ pc' = [pc EXCEPT ![c] = "real"]
    /\ inFlight' = [inFlight EXCEPT ![c] = sharedCookies]
    /\ UNCHANGED <<sharedCookies, captured, issued, started>>

\* the real request returns
RaceRealReplied(c) ==
    /\ UNCHANGED <<proxyVars, apiVars, dispatchVars, optVars, sysVars, jobVars, matchVars, dotVars>>
    /\ pc[c] = "real"
    /\ pc' = [pc EXCEPT ![c] = "done"]
    /\ UNCHANGED <<sharedCookies, inFlight, captured, loggedIn, issued, authed, wire, started>>

RaceNext ==
    \/ \E c \in Callers : RaceStart(c)
    \/ \E c \in Callers : RaceAuthChecked(c)
    \/ \E c \in Callers : \E credentialsOk \in BOOLEAN : RaceLoginReplied(c, credentialsOk)
    \/ \E c \in Callers : RaceRealReplied(c)

----------------------------------------------------------------------------
(* KeeneticApi: actions, one public operation per step *)

SvcS == <<"s">>
SvcT == <<"t">>

\* 'dns-auto:' + service + ':' + hostname
HostComment(name, hostname) == <<"dns-auto:">> \o name \o <<":">> \o hostname
\* `dns-auto:${service}` + `:optimized/${prefix}`
OptimizedComment(name, prefix) == <<"dns-auto:">> \o name \o <<":optimized/", ToString(prefix)>>
ServicePrefix(name) == <<"dns-auto:">> \o name

ManualRoute == HostRoute(9, "wg0", <<"manual">>)
UncommentedRoute ==
    [host |-> 4, network |-> -1, mask |-> -1, interface |-> "wg1",
     comment |-> <<>>, hasComment |-> FALSE]

InitialTables ==
    { <<>>,
      <<HostRoute(5, "wg0", HostComment(SvcS, NameA)), ManualRoute,
        HostRoute(6, "wg0", HostComment(SvcT, NameB))>>,
      <<UncommentedRoute, HostRoute(5, "wg1", HostComment(SvcS, NameA))>> }

Service(ips, interfaces, comment, network, mask) ==
    [ips |-> ips, interfaces |-> interfaces, comment |-> comment,
     network |-> network, mask |-> mask]

AddInputs ==
    { Service(<<5, 6>>, <<"wg0", "bad">>, HostComment(SvcS, NameA), -1, -1),
      Service(<<5>>, <<"bad", "wg1">>, HostComment(SvcS, NameA), -1, -1),
      Service(<<>>, <<"wg0">>, HostComment(SvcS, NameA), -1, -1),
      Service(<<6, 5>>, <<>>, HostComment(SvcS, NameA), -1, -1),
      Service(<<5>>, <<"wg1", "bad">>, OptimizedComment(SvcS, 22), 1024, -1024) }

RemoveInputs == {ServicePrefix(SvcS), HostComment(SvcT, NameB)}

NoService == Service(<<>>, <<>>, <<>>, -1, -1)
NoReply == [status |-> 0, headers |-> NoHeaders, data |-> NoData]

LastCall(op, out, service, prefix, reply, fetched, deleted, sent) ==
    [op |-> op, exc |-> out.ret.exc, bool |-> out.ret.bool, list |-> out.ret.list,
     service |-> service, prefix |-> prefix, reply |-> reply,
     fetched |-> fetched, deleted |-> deleted, sent |-> sent]

ApiInit ==
    /\ cookies = ""
    /\ router = Mode("active", "ok", "ok", "ok")
    /\ routerRoutes \in InitialTables
    /\ httpLog = <<>>
    /\ lastCall = [op |-> "none", exc |-> FALSE, bool |-> FALSE, list |-> <<>>,
                   service |-> NoService, prefix |-> <<>>, reply |-> NoReply,
                   fetched |-> FALSE, deleted |-> FALSE, sent |-> FALSE]
    /\ calls = 0

Ctx0(r) == [cookies |-> cookies, log |-> <<>>, table |-> routerRoutes, r |-> r]

Finish(ctx) ==
    /\ UNCHANGED <<proxyVars, dispatchVars, raceVars, optVars, sysVars, jobVars, matchVars, dotVars>>
    /\ calls < MaxCalls
    /\ calls' = calls + 1
    /\ cookies' = ctx.cookies
    /\ routerRoutes' = ctx.table
    /\ httpLog' = ctx.log
    /\ router' = ctx.r

CallAddStaticRoutesForService(r, service) ==
    \E out \in {addStaticRoutesForService(Ctx0(r), service)} :
        /\ Finish(out.ctx)
        /\ lastCall' = LastCall("addStaticRoutesForService", out, service, <<>>, out.reply,
                                FALSE, FALSE, TRUE)

CallRemoveRoutesByCommentPrefix(r, commentPrefix) ==
    \E out \in {removeRoutesByCommentPrefix(Ctx0(r), commentPrefix)} :
        /\ Finish(out.ctx)
        /\ lastCall' = LastCall("removeRoutesByCommentPrefix", out, NoService, commentPrefix,
                                NoReply, out.fetched, out.deleted, out.sent)

CallGetRoutes(r) ==
    \E out \in {getRoutes(Ctx0(r))} :
        /\ Finish(out.ctx)
        /\ lastCall' = LastCall("getRoutes", [ret |-> [NoRet EXCEPT !.list = out.ret]],
                                NoService, <<>>, NoReply, out.ok, FALSE, FALSE)

CallGetInterfaces(r) ==
    \E out \in {getInterfaces(Ctx0(r), {"Wireguard"})} :
        /\ Finish(out.ctx)
        /\ lastCall' = LastCall("getInterfaces", out, NoService, <<>>, NoReply,
                                FALSE, FALSE, FALSE)

CallGetClients(r) ==
    \E out \in {getClients(Ctx0(r))} :
        /\ Finish(out.ctx)
        /\ lastCall' = LastCall("getClients", out, NoService, <<>>, NoReply,
                                FALSE, FALSE, FALSE)

\* ensureAuthenticated called on its own
CallEnsureAuthenticated(r) ==
    \E out \in {ensureAuthenticated(Ctx0(r))} :
        /\ Finish(out.ctx)
        /\ lastCall' = LastCall("ensureAuthenticated",
                                [ret |-> [NoRet EXCEPT !.bool = out.ret]],
                                NoService, <<>>, NoReply, FALSE, FALSE, FALSE)

ApiNext ==
    \E r \in RouterModes :
        \/ \E service \in AddInputs : CallAddStaticRoutesForService(r, service)
        \/ \E commentPrefix \in RemoveInputs : CallRemoveRoutesByCommentPrefix(r, commentPrefix)
        \/ CallGetRoutes(r)
        \/ CallGetInterfaces(r)
        \/ CallGetClients(r)
        \/ CallEnsureAuthenticated(r)

----------------------------------------------------------------------------
(* Domain matcher (matcher.ts) *)

Lower(c) == CASE c = "A" -> "a" [] c = "B" -> "b" [] c = "C" -> "c" [] OTHER -> c

\* the characters . of a regular expression without the s flag does not
\* match: "\n" stands for the line terminators LF, CR, LS and PS
LineTerminator(c) == c = "\n"

\* the regular expression built without the i flag
RECURSIVE wildcardDomainMatchCaseSensitive(_, _)
wildcardDomainMatchCaseSensitive(domain, pattern) ==
    IF pattern = <<>> THEN domain = <<>>
    ELSE IF Head(pattern) = "*"
    THEN \/ wildcardDomainMatchCaseSensitive(domain, Tail(pattern))
         \/ /\ domain # <<>> /\ ~LineTerminator(Head(domain))
            /\ wildcardDomainMatchCaseSensitive(Tail(domain), pattern)
    ELSE /\ domain # <<>>
         /\ Head(domain) = Head(pattern)
         /\ wildcardDomainMatchCaseSensitive(Tail(domain), Tail(pattern))

\* * replaced with [^.]* instead of .*
RECURSIVE wildcardDomainMatchOneLabel(_, _)
wildcardDomainMatchOneLabel(domain, pattern) ==
    IF pattern = <<>> THEN domain = <<>>
    ELSE IF Head(pattern) = "*"
    THEN \/ wildcardDomainMatchOneLabel(domain, Tail(pattern))
         \/ /\ domain # <<>> /\ ~LineTerminator(Head(domain)) /\ Head(domain) # "."
            /\ wildcardDomainMatchOneLabel(Tail(domain), pattern)
    ELSE /\ domain # <<>>
         /\ Lower(Head(domain)) = Lower(Head(pattern))
         /\ wildcardDomainMatchOneLabel(Tail(domain), Tail(pattern))

\* new RegExp('^' + escaped.replace(/\*/g, '.*') + '$', 'i').test(domain):
\* every character but * is escaped, so it stands for itself; .* is any run
\* of characters that are not line terminators
RECURSIVE wildcardDomainMatch(_, _)
wildcardDomainMatch(domain, pattern) ==
    IF pattern = <<>> THEN domain = <<>>
    ELSE IF Head(pattern) = "*"
    THEN \/ wildcardDomainMatch(domain, Tail(pattern))
         \/ /\ domain # <<>> /\ ~LineTerminator(Head(domain))
            /\ wildcardDomainMatch(Tail(domain), pattern)
    ELSE /\ domain # <<>>
         /\ Lower(Head(domain)) = Lower(Head(pattern))
         /\ wildcardDomainMatch(Tail(domain), Tail(pattern))

\* without .replace(/^\./, '')
matchWithoutStarsKeepDot(domain, pattern) ==
    domain = SeqFilter(LAMBDA c : c # "*", pattern)

\* pattern.replace(/\*/g, '').replace(/^\./, ''), then ==
matchWithoutStars(domain, pattern) ==
    LET noStars == SeqFilter(LAMBDA c : c # "*", pattern)
        patternWithoutStars == IF noStars # <<>> /\ Head(noStars) = "." THEN Tail(noStars)
                               ELSE noStars
    IN  domain = patternWithoutStars

\* the test of matchers.find in onLine
matches(hostname, pattern) ==
    wildcardDomainMatch(hostname, pattern) \/ matchWithoutStars(hostname, pattern)

(* The matcher applied to host names and patterns of bounded length. *)

MaxNameLen == 3

HostChars == {"a", "A", ".", "*", "\n"}
PatternChars == {"a", "A", ".", "*"}
Strings(chars, n) == UNION {[1..k -> chars] : k \in 0..n}

NoMatchResult == [done |-> FALSE, wildcard |-> FALSE, stripped |-> FALSE, match |-> FALSE]

MatcherInit ==
    /\ matchHostname \in Strings(HostChars, MaxNameLen)
    /\ matchPattern \in Strings(PatternChars, MaxNameLen)
    /\ matchResult = NoMatchResult

Match ==
    /\ UNCHANGED <<proxyVars, apiVars, dispatchVars, raceVars, optVars, sysVars,
                   jobVars, dotVars>>
    /\ ~matchResult.done
    /\ matchResult' = [done |-> TRUE,
                       wildcard |-> wildcardDomainMatch(matchHostname, matchPattern),
                       stripped |-> matchWithoutStars(matchHostname, matchPattern),
                       match |-> matches(matchHostname, matchPattern)]
    /\ UNCHANGED <<matchHostname, matchPattern>>

MatcherNext == Match

----------------------------------------------------------------------------
(* Coverage check (route-optimizer.ts).  Addresses and masks are the       *)
(* signed 32-bit values ipToInt computes.                                  *)

RECURSIVE BitAnd(_, _)
BitAnd(a, b) ==
    IF a = 0 \/ b = 0 THEN 0
    ELSE IF a = -1 THEN b
    ELSE IF b = -1 THEN a
    ELSE (a % 2) * (b % 2) + 2 * BitAnd(a \div 2, b \div 2)

ipInNetwork(ip, network, mask) == BitAnd(ip, mask) = BitAnd(network, mask)

\* r.comment.startsWith(...) on a network route without comment throws
coverageThrows(routes) ==
    \E i \in 1..Len(routes) :
        routes[i].network # -1 /\ routes[i].mask # -1 /\ ~routes[i].hasComment

isIpCoveredByOptimizedRoutes(ip, routes, serviceCommentPrefix) ==
    LET optimizedRoutes ==
            SeqFilter(LAMBDA r : /\ r.network # -1 /\ r.mask # -1
                                 /\ StartsWith(r.comment, serviceCommentPrefix)
                                 /\ Includes(r.comment, <<":optimized/">>),
                      routes)
    IN  \E i \in 1..Len(optimizedRoutes) :
            ipInNetwork(ip, optimizedRoutes[i].network, optimizedRoutes[i].mask)

filterIpsCoveredByOptimizedRoutes(ips, routes, serviceCommentPrefix) ==
    [coveredIps |-> SeqFilter(LAMBDA ip :
                        isIpCoveredByOptimizedRoutes(ip, routes, serviceCommentPrefix), ips),
     uncoveredIps |-> SeqFilter(LAMBDA ip :
                        ~isIpCoveredByOptimizedRoutes(ip, routes, serviceCommentPrefix), ips)]

\* services.routes.ts: the filter the UI backfill applies to logged IPs
extractUniqueIps(ips) == SeqFilter(LAMBDA ip : ip # 0, ips)

----------------------------------------------------------------------------
(* Route optimizer (route-optimizer.ts).  A dotted-quad string is stood    *)
(* for by the signed 32-bit value of its four octets; ipToInt and intToIp  *)
(* recompute that value from the octets as the code does.                  *)

minPrefix == 22
maxPrefix == 30

\* ip.split('.').map(Number)
ipParts(ip) ==
    <<(ip \div 16777216) % 256, (ip \div 65536) % 256, (ip \div 256) % 256, ip % 256>>

\* (parts[0] << 24) + (parts[1] << 16) + (parts[2] << 8) + parts[3]; the
\* first shift wraps into the sign bit
ipToInt(ip) ==
    LET parts == ipParts(ip)
        high == IF parts[1] >= 128 THEN (parts[1] - 256) * 16777216
                ELSE parts[1] * 16777216
    IN  high + parts[2] * 65536 + parts[3] * 256 + parts[4]

\* [(int >>> 24) & 0xff, (int >>> 16) & 0xff, (int >>> 8) & 0xff, int & 0xff].join('.')
intToIp(int) ==
    LET o1 == (int \div 16777216) % 256
        o2 == (int \div 65536) % 256
        o3 == (int \div 256) % 256
        o4 == int % 256
    IN  (IF o1 >= 128 THEN (o1 - 256) * 16777216 ELSE o1 * 16777216)
        + o2 * 65536 + o3 * 256 + o4

\* ~((1 << (32 - prefix)) - 1)
maskInt(prefix) == -(2 ^ (32 - prefix))

prefixToMask(prefix) == intToIp(maskInt(prefix))

getNetworkAddress(ip, prefix) == intToIp(BitAnd(ipToInt(ip), maskInt(prefix)))

\* the elements of s in the order of their first occurrence (Set / Map keys)
RECURSIVE InsertionOrder(_)
InsertionOrder(s) ==
    IF s = <<>> THEN <<>>
    ELSE LET before == InsertionOrder(SubSeq(s, 1, Len(s) - 1))
         IN  IF s[Len(s)] \in Range(before) THEN before ELSE Append(before, s[Len(s)])

groupRoutesByInterfaceList(routes) ==
    LET hostRoutes == SeqFilter(LAMBDA r : r.host # -1, routes)
        interfaces == InsertionOrder(SeqMap(LAMBDA r : r.interface, hostRoutes))
    IN  SeqMap(LAMBDA iface :
                   [interface |-> iface,
                    ips |-> SeqMap(LAMBDA r : r.host,
                                SeqFilter(LAMBDA r : r.interface = iface, hostRoutes))],
               interfaces)

\* Map<interface, Set<host>> as a sequence of entries in insertion order
groupRoutesByInterface(routes) ==
    LET hostRoutes == SeqFilter(LAMBDA r : r.host # -1, routes)
        interfaces == InsertionOrder(SeqMap(LAMBDA r : r.interface, hostRoutes))
    IN  SeqMap(LAMBDA iface :
                   [interface |-> iface,
                    ips |-> InsertionOrder(SeqMap(LAMBDA r : r.host,
                                SeqFilter(LAMBDA r : r.interface = iface, hostRoutes)))],
               interfaces)

NoSubnet == [found |-> FALSE, network |-> -1, prefix |-> 0, mask |-> -1, ips |-> <<>>]

\* the update taken on equal coverage as well
trySubnetOnTie(ips, baseIp, prefix, best) ==
    With(getNetworkAddress(baseIp, prefix), LAMBDA network :
    With(prefixToMask(prefix), LAMBDA mask :
    With(SeqFilter(LAMBDA ip : ipInNetwork(ip, network, mask), ips), LAMBDA coveredIps :
        IF Len(coveredIps) >= best.maxCoverage /\ Len(coveredIps) > 1
        THEN [maxCoverage |-> Len(coveredIps),
              bestResult |-> [found |-> TRUE, network |-> network, prefix |-> prefix,
                              mask |-> mask, ips |-> coveredIps]]
        ELSE best)))

\* the update taken for every subnet of two or more addresses
trySubnetOfTwo(ips, baseIp, prefix, best) ==
    With(getNetworkAddress(baseIp, prefix), LAMBDA network :
    With(prefixToMask(prefix), LAMBDA mask :
    With(SeqFilter(LAMBDA ip : ipInNetwork(ip, network, mask), ips), LAMBDA coveredIps :
        IF Len(coveredIps) > 1
        THEN [maxCoverage |-> Len(coveredIps),
              bestResult |-> [found |-> TRUE, network |-> network, prefix |-> prefix,
                              mask |-> mask, ips |-> coveredIps]]
        ELSE best)))

\* the body of the two nested loops for one (baseIp, prefix)
trySubnet(ips, baseIp, prefix, best) ==
    With(getNetworkAddress(baseIp, prefix), LAMBDA network :
    With(prefixToMask(prefix), LAMBDA mask :
    With(SeqFilter(LAMBDA ip : ipInNetwork(ip, network, mask), ips), LAMBDA coveredIps :
        IF Len(coveredIps) > best.maxCoverage
        THEN [maxCoverage |-> Len(coveredIps),
              bestResult |-> [found |-> TRUE, network |-> network, prefix |-> prefix,
                              mask |-> mask, ips |-> coveredIps]]
        ELSE best)))

RECURSIVE scanPrefixes(_, _, _, _)
scanPrefixes(ips, baseIp, prefix, best) ==
    IF prefix > maxPrefix THEN best
    ELSE With(trySubnet(ips, baseIp, prefix, best), LAMBDA tried :
              scanPrefixes(ips, baseIp, prefix + 1, tried))

RECURSIVE scanBases(_, _, _)
scanBases(ips, k, best) ==
    IF k > Len(ips) THEN best
    ELSE With(scanPrefixes(ips, ips[k], minPrefix, best), LAMBDA scanned :
              scanBases(ips, k + 1, scanned))

findOptimalSubnet(ips) ==
    scanBases(ips, 1, [maxCoverage |-> 1, bestResult |-> NoSubnet]).bestResult

coveredRoutesAnyInterface(serviceRoutes, iface, ips) ==
    SeqFilter(LAMBDA r : r.host # -1 /\ r.host \in Range(ips), serviceRoutes)

\* serviceRoutes.filter(r => r.interface === iface && r.host && subnet.ips.includes(r.host))
coveredRoutes(serviceRoutes, iface, ips) ==
    SeqFilter(LAMBDA r : r.interface = iface /\ r.host # -1 /\ r.host \in Range(ips),
              serviceRoutes)

RECURSIVE aggregateInterface(_, _, _, _)

aggregateInterfaceOnce(iface, remainingIps, serviceRoutes, serviceCommentPrefix) ==
    IF Len(remainingIps) < 2 THEN [routesToAdd |-> <<>>, routesToRemove |-> <<>>]
    ELSE With(findOptimalSubnet(remainingIps), LAMBDA subnet :
         IF ~subnet.found \/ Len(subnet.ips) < 2
         THEN [routesToAdd |-> <<>>, routesToRemove |-> <<>>]
         ELSE [routesToAdd |->
                   <<NetRoute(subnet.network, subnet.mask, iface,
                              serviceCommentPrefix
                                  \o <<":optimized/", ToString(subnet.prefix)>>)>>,
               routesToRemove |-> coveredRoutes(serviceRoutes, iface, subnet.ips)])

\* the while loop of optimizeRoutes for one interface
aggregateInterface(iface, remainingIps, serviceRoutes, serviceCommentPrefix) ==
    IF Len(remainingIps) < 2 THEN [routesToAdd |-> <<>>, routesToRemove |-> <<>>]
    ELSE With(findOptimalSubnet(remainingIps), LAMBDA subnet :
         IF ~subnet.found \/ Len(subnet.ips) < 2
         THEN [routesToAdd |-> <<>>, routesToRemove |-> <<>>]
         ELSE With(aggregateInterface(iface,
                       SeqFilter(LAMBDA ip : ip \notin Range(subnet.ips), remainingIps),
                       serviceRoutes, serviceCommentPrefix), LAMBDA rest :
              [routesToAdd |->
                   <<NetRoute(subnet.network, subnet.mask, iface,
                              serviceCommentPrefix
                                  \o <<":optimized/", ToString(subnet.prefix)>>)>>
                   \o rest.routesToAdd,
               routesToRemove |->
                   coveredRoutes(serviceRoutes, iface, subnet.ips)
                   \o rest.routesToRemove]))

\* r.host && r.comment.startsWith(...) on a host route without comment throws
optimizeThrows(routes) ==
    \E i \in 1..Len(routes) : routes[i].host # -1 /\ ~routes[i].hasComment

optimizeRoutes(routes, serviceCommentPrefix) ==
    With(SeqFilter(LAMBDA r : r.host # -1 /\ StartsWith(r.comment, serviceCommentPrefix),
                   routes), LAMBDA serviceRoutes :
        IF Len(serviceRoutes) < 2 THEN [routesToAdd |-> <<>>, routesToRemove |-> <<>>]
        ELSE With(SeqMap(LAMBDA entry :
                             aggregateInterface(entry.interface, entry.ips,
                                                serviceRoutes, serviceCommentPrefix),
                         groupRoutesByInterface(serviceRoutes)), LAMBDA parts :
             [routesToAdd |-> FlatMap(LAMBDA part : part.routesToAdd, parts),
              routesToRemove |-> FlatMap(LAMBDA part : part.routesToRemove, parts)]))

calculateOptimizationStatsOfAdded(routesToAdd, routesToRemove) ==
    LET originalCount == Len(routesToAdd)
        optimizedCount == Len(routesToRemove)
        reduction == originalCount - optimizedCount
    IN  [originalCount |-> originalCount,
         optimizedCount |-> optimizedCount,
         reduction |-> reduction,
         reductionPercent |->
             IF originalCount > 0
             THEN (20000 * reduction + originalCount) \div (2 * originalCount)
             ELSE 0]

\* reductionPercent is kept in hundredths of a percent:
\* Math.round(reductionPercent * 100) / 100, Math.round rounding halves up
calculateOptimizationStats(routesToAdd, routesToRemove) ==
    LET originalCount == Len(routesToRemove)
        optimizedCount == Len(routesToAdd)
        reduction == originalCount - optimizedCount
    IN  [originalCount |-> originalCount,
         optimizedCount |-> optimizedCount,
         reduction |-> reduction,
         reductionPercent |->
             IF originalCount > 0
             THEN (20000 * reduction + originalCount) \div (2 * originalCount)
             ELSE 0]

----------------------------------------------------------------------------
(* Route optimizer: the functions applied to bounded route tables *)

Ip(a, b, c, d) ==
    (IF a >= 128 THEN (a - 256) * 16777216 ELSE a * 16777216) + b * 65536 + c * 256 + d

SvcS2 == <<"s", "2">>

RoutePool ==
    { HostRoute(Ip(10, 0, 0, 1), "wg0", HostComment(SvcS, NameA)),
      HostRoute(Ip(10, 0, 4, 1), "wg0", HostComment(SvcS, NameA)),
      HostRoute(Ip(10, 0, 0, 2), "wg1", HostComment(SvcS, NameA)),
      HostRoute(Ip(10, 0, 0, 1), "wg1", HostComment(SvcS, NameB)),
      HostRoute(Ip(192, 168, 1, 1), "wg0", HostComment(SvcS, NameA)),
      HostRoute(Ip(192, 168, 0, 1), "wg0", HostComment(SvcS, NameB)),
      HostRoute(Ip(10, 0, 0, 3), "wg0", <<"manual">>),
      NetRoute(Ip(10, 0, 0, 0), prefixToMask(22), "wg0", OptimizedComment(SvcS, 22)),
      NetRoute(Ip(10, 0, 4, 0), prefixToMask(22), "wg0", OptimizedComment(SvcS2, 22)),
      UncommentedRoute }

\* host routes 10.0.0.1 .. 10.0.0.5 of one service on wg0
FiveHosts ==
    [k \in 1..5 |-> HostRoute(Ip(10, 0, 0, k), "wg0", HostComment(SvcS, NameA))]

\* two /22 blocks on wg0, one on wg1, one address on its own
TwoBlocks ==
    << HostRoute(Ip(10, 0, 0, 1), "wg0", HostComment(SvcS, NameA)),
       HostRoute(Ip(192, 168, 1, 1), "wg0", HostComment(SvcS, NameA)),
       HostRoute(Ip(10, 0, 3, 9), "wg0", HostComment(SvcS, NameB)),
       HostRoute(Ip(10, 0, 0, 2), "wg1", HostComment(SvcS, NameA)),
       HostRoute(Ip(192, 168, 0, 1), "wg0", HostComment(SvcS, NameB)),
       HostRoute(Ip(10, 0, 0, 1), "wg1", HostComment(SvcS, NameB)),
       HostRoute(Ip(10, 0, 4, 1), "wg0", HostComment(SvcS, NameA)) >>

\* two hostnames of one service resolved to one address
SameAddress ==
    << HostRoute(Ip(10, 0, 0, 1), "wg0", HostComment(SvcS, NameA)),
       HostRoute(Ip(10, 0, 0, 1), "wg0", HostComment(SvcS, NameB)) >>

RouteTables ==
    UNION {[1..n -> RoutePool] : n \in 0..MaxRoutes}
        \cup {FiveHosts, TwoBlocks, SameAddress}

Prefixes == {ServicePrefix(SvcS), ServicePrefix(SvcT)}

CoverIps == {Ip(10, 0, 0, 1), Ip(10, 0, 4, 1), Ip(192, 168, 0, 1)}

NoResult == [done |-> FALSE, throws |-> FALSE, routesToAdd |-> <<>>, routesToRemove |-> <<>>]
NoStats == [originalCount |-> 0, optimizedCount |-> 0, reduction |-> 0, reductionPercent |-> 0]
NoCoverage == [done |-> FALSE, throws |-> FALSE, ip |-> -1, covered |-> FALSE]

OptimizerInit ==
    /\ inRoutes \in RouteTables
    /\ inPrefix \in Prefixes
    /\ optimized = NoResult
    /\ stats = NoStats
    /\ reoptimized = NoResult
    /\ coverage = NoCoverage

Returned(result) ==
    [done |-> TRUE, throws |-> FALSE,
     routesToAdd |-> result.routesToAdd, routesToRemove |-> result.routesToRemove]
Thrown == [done |-> TRUE, throws |-> TRUE, routesToAdd |-> <<>>, routesToRemove |-> <<>>]

\* optimizeRoutes, then calculateOptimizationStats on its result
Optimize ==
    /\ UNCHANGED <<proxyVars, apiVars, dispatchVars, raceVars, sysVars, jobVars, matchVars, dotVars>>
    /\ ~optimized.done /\ ~coverage.done
    /\ IF optimizeThrows(inRoutes)
       THEN optimized' = Thrown /\ UNCHANGED stats
       ELSE \E result \in {optimizeRoutes(inRoutes, inPrefix)} :
               /\ optimized' = Returned(result)
               /\ stats' = calculateOptimizationStats(result.routesToAdd,
                                                      result.routesToRemove)
    /\ UNCHANGED <<inRoutes, inPrefix, reoptimized, coverage>>

\* the table with routesToRemove deleted and routesToAdd inserted
applied(routes, result) ==
    SeqFilter(LAMBDA r : r \notin Range(result.routesToRemove), routes)
        \o result.routesToAdd

\* optimizeRoutes on the table its own result was applied to
Reoptimize ==
    /\ UNCHANGED <<proxyVars, apiVars, dispatchVars, raceVars, sysVars, jobVars, matchVars, dotVars>>
    /\ optimized.done /\ ~optimized.throws /\ ~reoptimized.done
    /\ reoptimized' = Returned(optimizeRoutes(applied(inRoutes, optimized), inPrefix))
    /\ UNCHANGED <<inRoutes, inPrefix, optimized, stats, coverage>>

\* isIpCoveredByOptimizedRoutes for one address
CheckCovered(ip) ==
    /\ UNCHANGED <<proxyVars, apiVars, dispatchVars, raceVars, sysVars, jobVars, matchVars, dotVars>>
    /\ ~coverage.done /\ ~optimized.done
    /\ coverage' =
          IF coverageThrows(inRoutes)
          THEN [done |-> TRUE, throws |-> TRUE, ip |-> ip, covered |-> FALSE]
          ELSE [done |-> TRUE, throws |-> FALSE, ip |-> ip,
                covered |-> isIpCoveredByOptimizedRoutes(ip, inRoutes, inPrefix)]
    /\ UNCHANGED <<inRoutes, inPrefix, optimized, stats, reoptimized>>

OptimizerNext ==
    \/ Optimize
    \/ Reoptimize
    \/ \E ip \in CoverIps : CheckCovered(ip)

----------------------------------------------------------------------------
(* Dispatcher (main.ts) *)

PatStarC == <<"*", ".", "c">>
HostC == <<"c">>
HostOther == <<"x", ".", "d">>

ServiceDef(name, interfaces, domains, opt, en) ==
    [name |-> name, interfaces |-> interfaces, matchingDomains |-> domains,
     optimizeRoutes |-> opt, enabled |-> en]

Registries ==
    { << ServiceDef(SvcS, <<"wg0">>, <<PatStarC>>, o1, TRUE),
         ServiceDef(SvcT, <<"wg0", "wg1">>, <<NameA, HostOther>>, FALSE, TRUE) >> :
      o1 \in BOOLEAN }

MASK22 == -1024

DispatchTables ==
    { <<>>,
      <<NetRoute(1024, MASK22, "wg0", OptimizedComment(SvcS, 22)),
        HostRoute(5, "wg0", HostComment(SvcS, NameA))>>,
      <<[host |-> -1, network |-> 2048, mask |-> MASK22, interface |-> "wg0",
         comment |-> <<>>, hasComment |-> FALSE]>> }

\* lines of the resolution event log: JSON with hostname and ips, or not
LogLines ==
    {[ok |-> FALSE, hostname |-> <<>>, ips |-> <<>>]}
    \cup {[ok |-> TRUE, hostname |-> h, ips |-> ips] :
            h \in {NameA, NameB, HostC},
            ips \in {<<0>>, <<1025>>, <<1025, 0, 6>>}}

\* fetchMatchers: one entry per enabled service and pattern
flattenMatchers(existingServices) ==
    FlatMap(LAMBDA service :
                SeqMap(LAMBDA pattern : [name |-> service.name,
                                         interfaces |-> service.interfaces,
                                         pattern |-> pattern],
                       service.matchingDomains),
            SeqFilter(LAMBDA svc : svc.enabled, existingServices))

\* matchers.find taking the last matcher that matches
findLastMatch(list, hostname) ==
    LET hits == {i \in 1..Len(list) : matches(hostname, list[i].pattern)}
    IN  IF hits = {} THEN 0 ELSE CHOOSE i \in hits : \A j \in hits : i >= j

\* matchers.find(...): index of the first matcher that matches, 0 if none
findMatch(list, hostname) ==
    LET hits == {i \in 1..Len(list) : matches(hostname, list[i].pattern)}
    IN  IF hits = {} THEN 0 ELSE CHOOSE i \in hits : \A j \in hits : i <= j

\* getServiceByName: index of the first row with that name, 0 for null
getServiceByName(name) ==
    LET hits == {i \in 1..Len(services) : services[i].name = name}
    IN  IF hits = {} THEN 0 ELSE CHOOSE i \in hits : \A j \in hits : i <= j

\* the IPs onLine hands to addStaticRoutesForService
ipsToAdd(logEntryIps, service, currentRoutes, commentPrefix) ==
    IF service.optimizeRoutes
    THEN filterIpsCoveredByOptimizedRoutes(logEntryIps, currentRoutes, commentPrefix).uncoveredIps
    ELSE logEntryIps

DispatchInit ==
    /\ matchers = [defined |-> FALSE, list |-> <<>>]
    /\ services \in Registries
    /\ tableRoutes \in DispatchTables
    /\ addCalls = <<>>
    /\ dispatched = <<>>

fetchMatchers ==
    /\ UNCHANGED <<proxyVars, apiVars, raceVars, optVars, sysVars, jobVars, matchVars, dotVars>>
    /\ matchers' = [defined |-> TRUE, list |-> flattenMatchers(services)]
    /\ matchers' # matchers
    /\ UNCHANGED <<services, tableRoutes, addCalls, dispatched>>

\* environment: the UI toggles a service
ToggleEnabled(i) ==
    /\ UNCHANGED <<proxyVars, apiVars, raceVars, optVars, sysVars, jobVars, matchVars, dotVars>>
    /\ i \in 1..Len(services)
    /\ services' = [services EXCEPT ![i].enabled = ~@]
    /\ UNCHANGED <<matchers, tableRoutes, addCalls, dispatched>>

Handled(line, outcome) ==
    dispatched' = Append(dispatched, [hostname |-> line.hostname, ips |-> line.ips,
                                       ok |-> line.ok, outcome |-> outcome])

\* onLine.  getRoutesOk: api.getRoutes() read the table (otherwise it
\* returns [])
onLine(line, getRoutesOk) ==
    /\ UNCHANGED <<proxyVars, apiVars, raceVars, optVars, sysVars, jobVars, matchVars, dotVars>>
    /\ Len(dispatched) < MaxEvents
    /\ \/ \* JSON.parse throws, or the fields are missing
          /\ ~line.ok
          /\ Handled(line, "skipped")
          /\ UNCHANGED addCalls
       \/ \* matchers is still undefined: matchers.find throws, caught
          /\ line.ok /\ ~matchers.defined
          /\ Handled(line, "error")
          /\ UNCHANGED addCalls
       \/ /\ line.ok /\ matchers.defined
          /\ findMatch(matchers.list, line.hostname) = 0
          /\ Handled(line, "nomatch")
          /\ UNCHANGED addCalls
       \/ /\ line.ok /\ matchers.defined
          /\ findMatch(matchers.list, line.hostname) # 0
          /\ LET match == matchers.list[findMatch(matchers.list, line.hostname)]
                 si == getServiceByName(match.name)
                 currentRoutes == IF getRoutesOk THEN tableRoutes ELSE <<>>
                 commentPrefix == ServicePrefix(match.name)
             IN  \/ /\ si = 0 \/ (si # 0 /\ ~services[si].enabled)
                    /\ Handled(line, "disabled")
                    /\ UNCHANGED addCalls
                 \/ /\ si # 0 /\ services[si].enabled
                    /\ services[si].optimizeRoutes /\ coverageThrows(currentRoutes)
                    /\ Handled(line, "error")
                    /\ UNCHANGED addCalls
                 \/ /\ si # 0 /\ services[si].enabled
                    /\ ~(services[si].optimizeRoutes /\ coverageThrows(currentRoutes))
                    /\ LET ips == ipsToAdd(line.ips, services[si], currentRoutes, commentPrefix)
                       IN  IF Len(ips) = 0
                           THEN /\ Handled(line, "covered")
                                /\ UNCHANGED addCalls
                           ELSE /\ Handled(line, "added")
                                /\ addCalls' = Append(addCalls,
                                      [event |-> Len(dispatched) + 1,
                                       service |-> Service(ips, match.interfaces,
                                                     HostComment(match.name, line.hostname),
                                                     -1, -1)])
    /\ UNCHANGED <<matchers, services, tableRoutes>>

DispatchNext ==
    \/ fetchMatchers
    \/ ToggleEnabled(1)
    \/ \E line \in LogLines : \E getRoutesOk \in BOOLEAN : onLine(line, getRoutesOk)

\* environment: the UI deletes a service (POST /delete/:id)
DeleteService(i) ==
    /\ UNCHANGED <<proxyVars, apiVars, raceVars, optVars, sysVars, jobVars, matchVars, dotVars>>
    /\ i \in 1..Len(services)
    /\ services' = SubSeq(services, 1, i - 1) \o SubSeq(services, i + 1, Len(services))
    /\ UNCHANGED <<matchers, tableRoutes, addCalls, dispatched>>

\* the dispatcher with a registry that loses services, on events that
\* resolved to one address
MatchLines == {line \in LogLines : ~line.ok \/ line.ips = <<1025>>}

FirstMatchNext ==
    \/ fetchMatchers
    \/ ToggleEnabled(1)
    \/ \E i \in 1..2 : DeleteService(i)
    \/ \E line \in MatchLines : \E getRoutesOk \in BOOLEAN : onLine(line, getRoutesOk)

----------------------------------------------------------------------------
(* The dispatcher (main.ts onLine), the optimization job (main.ts          *)
(* optimizeServiceRoutes) and the UI handlers (services.routes.ts) working *)
(* on one router through one KeeneticApi, one handler per step.            *)

EndsWith(s, suffix) ==
    Len(suffix) <= Len(s) /\ SubSeq(s, Len(s) - Len(suffix) + 1, Len(s)) = suffix

\* dns-log-processor.ts
domainMatchesPattern(domain, pattern) ==
    IF domain = pattern THEN TRUE
    ELSE IF StartsWith(pattern, <<"*", ".">>)
         THEN LET suffix == SubSeq(pattern, 3, Len(pattern))
              IN  EndsWith(domain, <<".">> \o suffix) \/ domain = suffix
         ELSE EndsWith(domain, <<".">> \o pattern)

matchDomainsAgainstPatterns(domains, patterns) ==
    SeqFilter(LAMBDA domain :
                  \E i \in 1..Len(patterns) : domainMatchesPattern(domain, patterns[i]),
              domains)

extractUniqueIpsFromEntries(entries) ==
    InsertionOrder(FlatMap(LAMBDA entry : extractUniqueIps(entry.ips), entries))

\* getServiceByName on a registry: index of the first row of that name, 0 for null
serviceByName(registry, name) ==
    LET hits == {i \in 1..Len(registry) : registry[i].name = name}
    IN  IF hits = {} THEN 0 ELSE CHOOSE i \in hits : \A j \in hits : i <= j

\* api.addStaticRoutesForService({ips, interfaces, comment}) unless ips is empty
submitHosts(ctx, ips, interfaces, comment) ==
    IF Len(ips) = 0 THEN ctx
    ELSE addStaticRoutesForService(ctx, Service(ips, interfaces, comment, -1, -1)).ctx

\* the IPs left after the coverage check, then the add; a throw of the
\* check is caught by the handler's try
submitUncovered(ctx, ips, interfaces, comment, commentPrefix) ==
    With(getRoutes(ctx), LAMBDA currentRoutes :
        IF coverageThrows(currentRoutes.ret) THEN currentRoutes.ctx
        ELSE submitHosts(currentRoutes.ctx,
                 filterIpsCoveredByOptimizedRoutes(ips, currentRoutes.ret,
                                                   commentPrefix).uncoveredIps,
                 interfaces, comment))

\* onLine, with the matcher list of the registry as it is
dispatchLine(ctx, registry, line) ==
    LET list == flattenMatchers(registry)
        m == IF line.ok THEN findMatch(list, line.hostname) ELSE 0
        si == IF m = 0 THEN 0 ELSE serviceByName(registry, list[m].name)
    IN  IF m = 0 \/ si = 0 THEN ctx
        ELSE IF ~registry[si].enabled THEN ctx
        ELSE IF registry[si].optimizeRoutes
        THEN submitUncovered(ctx, line.ips, list[m].interfaces,
                             HostComment(list[m].name, line.hostname),
                             ServicePrefix(list[m].name))
        ELSE submitHosts(ctx, line.ips, list[m].interfaces,
                         HostComment(list[m].name, line.hostname))

\* for (const route of routesToRemove) await api.removeRoutesByCommentPrefix(route.comment)
RECURSIVE removeEach(_, _)
removeEach(ctx, routesToRemove) ==
    IF routesToRemove = <<>> THEN ctx
    ELSE With(removeRoutesByCommentPrefix(ctx, Head(routesToRemove).comment),
              LAMBDA removed : removeEach(removed.ctx, Tail(routesToRemove)))

\* for (const route of routesToAdd) await api.addStaticRoutesForService({...});
\* exc: a call threw, which ends the run
RECURSIVE addEach(_, _)
addEach(ctx, routesToAdd) ==
    IF routesToAdd = <<>> THEN [ctx |-> ctx, exc |-> FALSE]
    ELSE With(addStaticRoutesForService(ctx,
                  Service(<<>>, <<Head(routesToAdd).interface>>, Head(routesToAdd).comment,
                          Head(routesToAdd).network, Head(routesToAdd).mask)),
              LAMBDA added :
                  IF added.ret.exc THEN [ctx |-> added.ctx, exc |-> TRUE]
                  ELSE addEach(added.ctx, Tail(routesToAdd)))

\* the loop over servicesToOptimize
RECURSIVE optimizeEach(_, _, _)
optimizeEach(ctx, servicesToOptimize, allRoutes) ==
    IF servicesToOptimize = <<>> \/ optimizeThrows(allRoutes) THEN ctx
    ELSE With(optimizeRoutes(allRoutes, ServicePrefix(Head(servicesToOptimize).name)),
              LAMBDA result :
         IF result.routesToAdd = <<>>
         THEN optimizeEach(ctx, Tail(servicesToOptimize), allRoutes)
         ELSE With(removeEach(ctx, result.routesToRemove), LAMBDA removed :
              With(addEach(removed, result.routesToAdd), LAMBDA added :
                  IF added.exc THEN added.ctx
                  ELSE optimizeEach(added.ctx, Tail(servicesToOptimize), allRoutes))))

optimizeServiceRoutes(ctx, registry) ==
    With(SeqFilter(LAMBDA service : service.enabled /\ service.optimizeRoutes, registry),
         LAMBDA servicesToOptimize :
        IF servicesToOptimize = <<>> THEN ctx
        ELSE With(getRoutes(ctx), LAMBDA allRoutes :
                  optimizeEach(allRoutes.ctx, servicesToOptimize, allRoutes.ret)))

\* POST /create after createService: routes for the logged requests that
\* match the new service
backfill(ctx, newServiceData, dnsRequests) ==
    With(matchDomainsAgainstPatterns(SeqMap(LAMBDA q : q.hostname, dnsRequests),
                                     newServiceData.matchingDomains),
         LAMBDA matchedDomains :
        IF matchedDomains = <<>> THEN ctx
        ELSE With(extractUniqueIpsFromEntries(
                      SeqFilter(LAMBDA q : q.hostname \in Range(matchedDomains),
                                dnsRequests)),
                  LAMBDA ips :
             IF newServiceData.optimizeRoutes
             THEN submitUncovered(ctx, ips, newServiceData.interfaces,
                                  ServicePrefix(newServiceData.name),
                                  ServicePrefix(newServiceData.name))
             ELSE submitHosts(ctx, ips, newServiceData.interfaces,
                              ServicePrefix(newServiceData.name))))

SystemModes == {Mode("active", "ok", "ok", "ok"), Mode("active", "ok", "network", "ok")}

SystemRegistries ==
    { <<ServiceDef(SvcS, <<"wg0">>, <<PatStarC>>, opt, TRUE)>> : opt \in BOOLEAN }

SystemTables ==
    { <<>>,
      <<ManualRoute, HostRoute(Ip(10, 0, 0, 1), "wg0", HostComment(SvcS, NameB)),
        HostRoute(Ip(10, 0, 0, 5), "wg0", HostComment(SvcS, NameA))>>,
      <<UncommentedRoute, HostRoute(Ip(10, 0, 0, 1), "wg0", HostComment(SvcS, NameB))>> }

SystemLines ==
    { [ok |-> TRUE, hostname |-> NameA, ips |-> <<Ip(10, 0, 0, 2)>>],
      [ok |-> TRUE, hostname |-> NameB, ips |-> <<Ip(10, 0, 0, 1), 0>>] }

NewServices ==
    { ServiceDef(SvcS2, <<"wg1">>, <<HostC>>, opt, TRUE) : opt \in BOOLEAN }

DnsRequests ==
    << [hostname |-> NameA, ips |-> <<Ip(10, 0, 0, 2), 0>>],
       [hostname |-> HostOther, ips |-> <<Ip(10, 0, 4, 1)>>] >>

SystemInit ==
    /\ sysServices \in SystemRegistries
    /\ sysTable \in SystemTables
    /\ sysCookies = "sid"
    /\ sysCommands = <<>>
    /\ sysSteps = 0

SysCtx(r) == [cookies |-> sysCookies, log |-> <<>>, table |-> sysTable, r |-> r]

\* the route commands of the batches a handler sent; before is a ghost: the
\* router's table when the handler started
CommandsOf(log, path) ==
    FlatMap(LAMBDA e :
                IF e.body.kind = "batch"
                THEN SeqMap(LAMBDA c : [path |-> path, cmd |-> c, before |-> sysTable],
                            e.body.commands)
                ELSE <<>>,
            log)

SysDone(ctx, path) ==
    /\ UNCHANGED <<proxyVars, apiVars, dispatchVars, raceVars, optVars, jobVars, matchVars, dotVars>>
    /\ sysSteps < MaxSteps
    /\ sysSteps' = sysSteps + 1
    /\ sysTable' = ctx.table
    /\ sysCookies' = ctx.cookies
    /\ sysCommands' = sysCommands \o CommandsOf(ctx.log, path)

SysDispatch(r, line) ==
    /\ \E ctx \in {dispatchLine(SysCtx(r), sysServices, line)} : SysDone(ctx, "dispatch")
    /\ UNCHANGED sysServices

SysOptimize(r) ==
    /\ \E ctx \in {optimizeServiceRoutes(SysCtx(r), sysServices)} : SysDone(ctx, "optimize")
    /\ UNCHANGED sysServices

\* POST /create: createService fails on a name already taken
SysCreate(r, newServiceData) ==
    /\ serviceByName(sysServices, newServiceData.name) = 0
    /\ sysServices' = Append(sysServices, newServiceData)
    /\ \E ctx \in {backfill(SysCtx(r), newServiceData, DnsRequests)} : SysDone(ctx, "backfill")

\* POST /remove-routes/:id
SysRemoveRoutes(r, id) ==
    /\ id \in 1..Len(sysServices)
    /\ \E out \in {removeRoutesByCommentPrefix(SysCtx(r), ServicePrefix(sysServices[id].name))} :
          SysDone(out.ctx, "remove-routes")
    /\ UNCHANGED sysServices

\* POST /toggle-enabled/:id
SysToggleEnabled(r, id) ==
    /\ id \in 1..Len(sysServices)
    /\ sysServices' = [sysServices EXCEPT ![id].enabled = ~@]
    /\ IF sysServices[id].enabled
       THEN \E out \in {removeRoutesByCommentPrefix(SysCtx(r),
                                                    ServicePrefix(sysServices[id].name))} :
               SysDone(out.ctx, "toggle-enabled")
       ELSE SysDone(SysCtx(r), "toggle-enabled")

SystemNext ==
    \E r \in SystemModes :
        \/ \E line \in SystemLines : SysDispatch(r, line)
        \/ SysOptimize(r)
        \/ \E newServiceData \in NewServices : SysCreate(r, newServiceData)
        \/ \E id \in 1..2 : SysRemoveRoutes(r, id)
        \/ \E id \in 1..2 : SysToggleEnabled(r, id)

----------------------------------------------------------------------------
(* The optimization job (main.ts optimizeServiceRoutes) and the onLine     *)
(* handlers of main.ts on one router, one await per step.  The router      *)
(* answers every request.                                                  *)

MaxRuns == 1
MaxLines == 2

JobRouter == Mode("active", "ok", "ok", "ok")
JobCtx == [cookies |-> "sid", log |-> <<>>, table |-> runTable, r |-> JobRouter]

JobRegistry == <<ServiceDef(SvcS, <<"wg0">>, <<PatStarC>>, TRUE, TRUE)>>

JobTables ==
    { <<HostRoute(Ip(10, 0, 0, 1), "wg0", HostComment(SvcS, NameA)),
        HostRoute(Ip(10, 0, 0, 5), "wg0", HostComment(SvcS, NameB))>>,
      <<ManualRoute,
        HostRoute(Ip(10, 0, 0, 1), "wg0", HostComment(SvcS, NameA)),
        HostRoute(Ip(10, 0, 0, 5), "wg0", HostComment(SvcS, NameB)),
        HostRoute(Ip(10, 0, 4, 1), "wg0", HostComment(SvcS, NameA))>>,
      <<HostRoute(Ip(10, 0, 0, 1), "wg0", HostComment(SvcS, NameA)),
        HostRoute(Ip(10, 0, 4, 1), "wg0", HostComment(SvcT, NameA))>>,
      <<HostRoute(Ip(10, 0, 0, 1), "wg0", HostComment(SvcS, NameA)),
        HostRoute(Ip(10, 0, 0, 5), "wg0", HostComment(SvcS2, NameA)),
        NetRoute(Ip(10, 0, 8, 0), prefixToMask(22), "wg0", OptimizedComment(SvcS2, 22))>> }

JobLines ==
    { [ok |-> TRUE, hostname |-> NameA, ips |-> <<Ip(10, 0, 0, 2)>>],
      [ok |-> TRUE, hostname |-> NameB, ips |-> <<Ip(10, 0, 0, 9), Ip(10, 0, 8, 1)>>] }

JobInit ==
    /\ runTable \in JobTables
    /\ runPc = "idle"
    /\ runSnapshot = <<>>
    /\ runToRemove = <<>>
    /\ runToAdd = <<>>
    /\ runCount = 0
    /\ linesPending = <<>>
    /\ linesStarted = 0
    /\ runs = <<>>
    /\ handlers = <<>>

JobFrame == UNCHANGED <<proxyVars, apiVars, dispatchVars, raceVars, optVars, sysVars,
                        matchVars, dotVars, runs, handlers>>

\* where the run stands once the queues are as given
runPosition(toRemove, toAdd) ==
    IF toRemove = <<>> /\ toAdd = <<>> THEN "done" ELSE "running"

\* optimizeServiceRoutes up to the first router call of the loop body:
\* getAllServices, api.getRoutes(), optimizeRoutes for the service
RunStart ==
    /\ JobFrame
    /\ runPc \in {"idle", "done", "failed"}
    /\ runCount < MaxRuns
    /\ runCount' = runCount + 1
    /\ \E servicesToOptimize \in
            {SeqFilter(LAMBDA service : service.enabled /\ service.optimizeRoutes,
                       JobRegistry)} :
       \E allRoutes \in {getRoutes(JobCtx)} :
          /\ runSnapshot' = allRoutes.ret
          /\ runTable' = allRoutes.ctx.table
          /\ IF servicesToOptimize = <<>>
             THEN runPc' = "done" /\ runToRemove' = <<>> /\ runToAdd' = <<>>
             ELSE IF optimizeThrows(allRoutes.ret)
             THEN runPc' = "failed" /\ runToRemove' = <<>> /\ runToAdd' = <<>>
             ELSE \E result \in {optimizeRoutes(allRoutes.ret,
                                    ServicePrefix(servicesToOptimize[1].name))} :
                     /\ runToRemove' = result.routesToRemove
                     /\ runToAdd' = result.routesToAdd
                     /\ runPc' = IF result.routesToAdd = <<>> THEN "done" ELSE "running"
    /\ UNCHANGED <<linesPending, linesStarted>>

\* await api.removeRoutesByCommentPrefix(route.comment) for the next route
RunRemove ==
    /\ JobFrame
    /\ runPc = "running" /\ runToRemove # <<>>
    /\ \E removed \in {removeRoutesByCommentPrefix(JobCtx, Head(runToRemove).comment)} :
          runTable' = removed.ctx.table
    /\ runToRemove' = Tail(runToRemove)
    /\ runPc' = runPosition(runToRemove', runToAdd)
    /\ UNCHANGED <<runSnapshot, runToAdd, runCount, linesPending, linesStarted>>

\* await api.addStaticRoutesForService({...}) for the next network route
RunAdd ==
    /\ JobFrame
    /\ runPc = "running" /\ runToRemove = <<>> /\ runToAdd # <<>>
    /\ \E added \in {addStaticRoutesForService(JobCtx,
                        Service(<<>>, <<Head(runToAdd).interface>>, Head(runToAdd).comment,
                                Head(runToAdd).network, Head(runToAdd).mask))} :
          /\ runTable' = added.ctx.table
          /\ IF added.ret.exc
             THEN runPc' = "failed" /\ runToAdd' = <<>>
             ELSE runToAdd' = Tail(runToAdd) /\ runPc' = runPosition(<<>>, runToAdd')
    /\ UNCHANGED <<runSnapshot, runToRemove, runCount, linesPending, linesStarted>>

\* onLine up to the return of api.getRoutes(): the match, getServiceByName,
\* and the route table read for the coverage check
LineRead(line) ==
    /\ JobFrame
    /\ linesStarted < MaxLines
    /\ linesStarted' = linesStarted + 1
    /\ LET list == flattenMatchers(JobRegistry)
           m == IF line.ok THEN findMatch(list, line.hostname) ELSE 0
           si == IF m = 0 THEN 0 ELSE serviceByName(JobRegistry, list[m].name)
       IN  IF m = 0 \/ si = 0 THEN UNCHANGED <<linesPending, runTable>>
           ELSE IF ~JobRegistry[si].enabled THEN UNCHANGED <<linesPending, runTable>>
           ELSE \E currentRoutes \in {IF JobRegistry[si].optimizeRoutes
                                      THEN getRoutes(JobCtx)
                                      ELSE [ctx |-> JobCtx, ok |-> FALSE, ret |-> <<>>]} :
                   /\ runTable' = currentRoutes.ctx.table
                   /\ linesPending' = Append(linesPending,
                         [hostname |-> line.hostname, ips |-> line.ips,
                          name |-> list[m].name, interfaces |-> list[m].interfaces,
                          currentRoutes |-> currentRoutes.ret])
    /\ UNCHANGED <<runPc, runSnapshot, runToRemove, runToAdd, runCount>>

\* the rest of onLine for a suspended handler: the coverage filter on the
\* routes it read, then api.addStaticRoutesForService
LineAdd(k) ==
    /\ JobFrame
    /\ k \in 1..Len(linesPending)
    /\ linesPending' = SubSeq(linesPending, 1, k - 1)
                           \o SubSeq(linesPending, k + 1, Len(linesPending))
    /\ LET h == linesPending[k]
       IN  IF coverageThrows(h.currentRoutes) THEN UNCHANGED runTable
           ELSE \E ctx \in {submitHosts(JobCtx,
                               filterIpsCoveredByOptimizedRoutes(
                                   h.ips, h.currentRoutes, ServicePrefix(h.name)).uncoveredIps,
                               h.interfaces, HostComment(h.name, h.hostname))} :
                   runTable' = ctx.table
    /\ UNCHANGED <<runPc, runSnapshot, runToRemove, runToAdd, runCount, linesStarted>>

JobNext ==
    \/ RunStart
    \/ RunRemove
    \/ RunAdd
    \/ \E line \in JobLines : LineRead(line)
    \/ \E k \in 1..MaxLines : LineAdd(k)

----------------------------------------------------------------------------
(* optimizeServiceRoutes as the timer and the startup call start it: every *)
(* call is a run of its own, suspended at each await, on one router.       *)

MaxTicks == 2

\* what getAllServices gives a run
RunRegistries ==
    { << ServiceDef(SvcS, <<"wg0">>, <<PatStarC>>, TRUE, TRUE),
         ServiceDef(SvcT, <<"wg0">>, <<HostOther>>, TRUE, TRUE) >>,
      << ServiceDef(SvcS, <<"wg0">>, <<PatStarC>>, TRUE, FALSE),
         ServiceDef(SvcT, <<"wg0">>, <<HostOther>>, TRUE, TRUE) >>,
      << ServiceDef(SvcS, <<"wg0">>, <<PatStarC>>, TRUE, FALSE),
         ServiceDef(SvcT, <<"wg0">>, <<HostOther>>, FALSE, TRUE) >> }

\* two host routes of s and two of t, in one /22 each, and a route of no
\* service
RunTables ==
    { << HostRoute(Ip(10, 0, 0, 1), "wg0", HostComment(SvcS, NameA)),
         HostRoute(Ip(10, 0, 0, 5), "wg0", HostComment(SvcS, NameB)),
         ManualRoute,
         HostRoute(Ip(10, 0, 4, 1), "wg0", HostComment(SvcT, HostOther)),
         HostRoute(Ip(10, 0, 4, 2), "wg0", HostComment(SvcT, NameA)) >> }

RunsInit ==
    /\ runTable \in RunTables
    /\ runs = <<>>
    /\ runPc = "idle" /\ runSnapshot = <<>> /\ runToRemove = <<>> /\ runToAdd = <<>>
    /\ runCount = 0 /\ linesPending = <<>> /\ linesStarted = 0
    /\ handlers = <<>>

RunsFrame ==
    UNCHANGED <<proxyVars, apiVars, dispatchVars, raceVars, optVars, sysVars, matchVars,
                dotVars, runPc, runSnapshot, runToRemove, runToAdd, runCount,
                linesPending, linesStarted, handlers>>

\* the requests of one client call that read the route table
tableReads(log) ==
    Len(SeqFilter(LAMBDA e : e.path = "/rci/" /\ e.body.kind = "showroutes", log))

\* the requests of one client call that carry route commands
tableWrites(log) ==
    Len(SeqFilter(LAMBDA e : e.path = "/rci/" /\ e.body.kind # "showroutes", log))

\* the for loop over servicesToOptimize, from the service at its head up to
\* the next router call: services without routesToAdd are passed over
RECURSIVE loopFrom(_, _)
loopFrom(servicesToOptimize, allRoutes) ==
    IF servicesToOptimize = <<>>
    THEN [pc |-> "done", services |-> <<>>, toRemove |-> <<>>, toAdd |-> <<>>]
    ELSE IF optimizeThrows(allRoutes)
    THEN [pc |-> "failed", services |-> <<>>, toRemove |-> <<>>, toAdd |-> <<>>]
    ELSE With(optimizeRoutes(allRoutes, ServicePrefix(Head(servicesToOptimize).name)),
              LAMBDA result :
         IF result.routesToAdd = <<>> THEN loopFrom(Tail(servicesToOptimize), allRoutes)
         ELSE [pc |-> "work", services |-> servicesToOptimize,
               toRemove |-> result.routesToRemove, toAdd |-> result.routesToAdd])

\* a timer tick or the startup call: optimizeServiceRoutes up to its
\* api.getRoutes(), or to its return when no service is to be optimized
StartRun(registry) ==
    /\ RunsFrame
    /\ Len(runs) < MaxTicks
    /\ \E servicesToOptimize \in
            {SeqFilter(LAMBDA service : service.enabled /\ service.optimizeRoutes,
                       registry)} :
          runs' = Append(runs,
                    [pc |-> IF servicesToOptimize = <<>> THEN "done" ELSE "fetch",
                     registry |-> registry, services |-> servicesToOptimize,
                     allRoutes |-> <<>>, toRemove |-> <<>>, toAdd |-> <<>>,
                     fetches |-> 0, last |-> "none", reads |-> 0, writes |-> 0])
    /\ UNCHANGED runTable

\* const allRoutes = await api.getRoutes(), then the loop up to its first
\* router call
RunGetRoutes(i) ==
    /\ RunsFrame
    /\ i \in 1..Len(runs) /\ runs[i].pc = "fetch"
    /\ \E fetched \in {getRoutes(JobCtx)} :
       \E at \in {loopFrom(runs[i].services, fetched.ret)} :
          /\ runTable' = fetched.ctx.table
          /\ runs' = [runs EXCEPT ![i] =
                 [@ EXCEPT !.pc = at.pc, !.services = at.services,
                           !.allRoutes = fetched.ret,
                           !.toRemove = at.toRemove, !.toAdd = at.toAdd,
                           !.fetches = @ + 1, !.last = "getRoutes",
                           !.reads = tableReads(fetched.ctx.log), !.writes = 0]]

\* await api.removeRoutesByCommentPrefix(route.comment) for the next route
RunRemoveRoute(i) ==
    /\ RunsFrame
    /\ i \in 1..Len(runs) /\ runs[i].pc = "work" /\ runs[i].toRemove # <<>>
    /\ \E removed \in {removeRoutesByCommentPrefix(JobCtx, Head(runs[i].toRemove).comment)} :
          /\ runTable' = removed.ctx.table
          /\ runs' = [runs EXCEPT ![i] =
                 [@ EXCEPT !.toRemove = Tail(@), !.last = "remove",
                           !.reads = tableReads(removed.ctx.log),
                           !.writes = tableWrites(removed.ctx.log)]]

\* the additions issued without the removals being over
RunAddRouteEarly(i) ==
    /\ RunsFrame
    /\ i \in 1..Len(runs) /\ runs[i].pc = "work"
    /\ runs[i].toAdd # <<>>
    /\ \E route \in {Head(runs[i].toAdd)} :
       \E added \in {addStaticRoutesForService(JobCtx,
                        Service(<<>>, <<route.interface>>, route.comment,
                                route.network, route.mask))} :
       \E at \in {IF added.ret.exc
                  THEN [pc |-> "failed", services |-> <<>>, toRemove |-> <<>>,
                        toAdd |-> <<>>]
                  ELSE IF Tail(runs[i].toAdd) # <<>>
                  THEN [pc |-> "work", services |-> runs[i].services,
                        toRemove |-> runs[i].toRemove, toAdd |-> Tail(runs[i].toAdd)]
                  ELSE IF runs[i].toRemove # <<>>
                  THEN [pc |-> "work", services |-> runs[i].services,
                        toRemove |-> runs[i].toRemove, toAdd |-> <<>>]
                  ELSE loopFrom(Tail(runs[i].services), runs[i].allRoutes)} :
          /\ runTable' = added.ctx.table
          /\ runs' = [runs EXCEPT ![i] =
                 [@ EXCEPT !.pc = at.pc, !.services = at.services,
                           !.toRemove = at.toRemove, !.toAdd = at.toAdd,
                           !.last = "add",
                           !.reads = tableReads(added.ctx.log),
                           !.writes = tableWrites(added.ctx.log)]]

\* await api.addStaticRoutesForService({...}) for the next network route;
\* after the last one the loop goes on with the next service
RunAddRoute(i) ==
    /\ RunsFrame
    /\ i \in 1..Len(runs) /\ runs[i].pc = "work"
    /\ runs[i].toRemove = <<>> /\ runs[i].toAdd # <<>>
    /\ \E route \in {Head(runs[i].toAdd)} :
       \E added \in {addStaticRoutesForService(JobCtx,
                        Service(<<>>, <<route.interface>>, route.comment,
                                route.network, route.mask))} :
       \E at \in {IF added.ret.exc
                  THEN [pc |-> "failed", services |-> <<>>, toRemove |-> <<>>,
                        toAdd |-> <<>>]
                  ELSE IF Tail(runs[i].toAdd) # <<>>
                  THEN [pc |-> "work", services |-> runs[i].services,
                        toRemove |-> <<>>, toAdd |-> Tail(runs[i].toAdd)]
                  ELSE loopFrom(Tail(runs[i].services), runs[i].allRoutes)} :
          /\ runTable' = added.ctx.table
          /\ runs' = [runs EXCEPT ![i] =
                 [@ EXCEPT !.pc = at.pc, !.services = at.services,
                           !.toRemove = at.toRemove, !.toAdd = at.toAdd,
                           !.last = "add",
                           !.reads = tableReads(added.ctx.log),
                           !.writes = tableWrites(added.ctx.log)]]

RunsNext ==
    \/ \E registry \in RunRegistries : StartRun(registry)
    \/ \E i \in 1..MaxTicks : RunGetRoutes(i)
    \/ \E i \in 1..MaxTicks : RunRemoveRoute(i)
    \/ \E i \in 1..MaxTicks : RunAddRoute(i)

----------------------------------------------------------------------------
(* The onLine handlers the file watcher starts (main.ts, file-watcher.ts): *)
(* readline emits one 'line' event per line and does not wait for the      *)
(* promise the listener returns.  A step is the start of a handler or the  *)
(* end of one of its router calls; the router may answer, fail, or never   *)
(* answer.                                                                 *)

LinesRegistry ==
    << ServiceDef(SvcS, <<"wg0">>, <<PatStarC>>, TRUE, TRUE),
       ServiceDef(SvcT, <<"wg0">>, <<HostOther>>, FALSE, TRUE) >>

LinesTables ==
    { <<>>,
      <<NetRoute(Ip(10, 0, 0, 0), prefixToMask(22), "wg0", OptimizedComment(SvcS, 22))>> }

LinesLines ==
    { [ok |-> FALSE, hostname |-> <<>>, ips |-> <<>>],
      [ok |-> TRUE, hostname |-> HostC, ips |-> <<Ip(10, 0, 0, 2), Ip(10, 0, 8, 1)>>],
      [ok |-> TRUE, hostname |-> HostOther, ips |-> <<Ip(10, 0, 4, 9)>>] }

\* the router during one call of the client: healthy, unreachable, or
\* refusing the route commands
LinesModes ==
    { Mode("active", "ok", "ok", "ok"),
      Mode("network", "ok", "network", "network"),
      Mode("active", "ok", "ok", "status401") }

LinesCtx(r) == [cookies |-> "sid", log |-> <<>>, table |-> runTable, r |-> r]

LinesInit ==
    /\ runTable \in LinesTables
    /\ handlers = <<>>
    /\ runs = <<>>
    /\ runPc = "idle" /\ runSnapshot = <<>> /\ runToRemove = <<>> /\ runToAdd = <<>>
    /\ runCount = 0 /\ linesPending = <<>> /\ linesStarted = 0

LinesFrame ==
    UNCHANGED <<proxyVars, apiVars, dispatchVars, raceVars, optVars, sysVars, matchVars,
                dotVars, runPc, runSnapshot, runToRemove, runToAdd, runCount,
                linesPending, linesStarted, runs>>

\* a call of onLine: pc is the await it stands at ("done" once nothing of
\* it is left), batches the route batches posted for it, resp what the
\* promise of addStaticRoutesForService settled with
Handler(line, at, name, interfaces, ips) ==
    [line |-> line, pc |-> at, name |-> name, interfaces |-> interfaces, ips |-> ips,
     batches |-> 0, resp |-> "none"]

\* onLine from JSON.parse to its first router call
startOnLine(line) ==
    With(flattenMatchers(LinesRegistry), LAMBDA list :
    With(IF line.ok THEN findMatch(list, line.hostname) ELSE 0, LAMBDA m :
    With(IF m = 0 THEN 0 ELSE serviceByName(LinesRegistry, list[m].name), LAMBDA si :
        IF m = 0 \/ si = 0 THEN Handler(line, "done", <<>>, <<>>, <<>>)
        ELSE IF ~LinesRegistry[si].enabled THEN Handler(line, "done", <<>>, <<>>, <<>>)
        ELSE IF LinesRegistry[si].optimizeRoutes
        THEN Handler(line, "getRoutes", list[m].name, list[m].interfaces, line.ips)
        ELSE IF Len(line.ips) = 0 THEN Handler(line, "done", <<>>, <<>>, <<>>)
        ELSE Handler(line, "add", list[m].name, list[m].interfaces, line.ips))))

\* a 'line' event that is held back until the handlers before it are over
LineEventSerial(line) ==
    /\ LinesFrame
    /\ Len(handlers) < MaxLines
    /\ \A k \in 1..Len(handlers) : handlers[k].pc = "done"
    /\ \E handler \in {startOnLine(line)} : handlers' = Append(handlers, handler)
    /\ UNCHANGED runTable

\* rl.on('line', onLine): the next line of the log starts a handler
LineEvent(line) ==
    /\ LinesFrame
    /\ Len(handlers) < MaxLines
    /\ \E handler \in {startOnLine(line)} : handlers' = Append(handlers, handler)
    /\ UNCHANGED runTable

\* await api.getRoutes() returns (with [] when the request failed), then
\* the coverage filter and the call of api.addStaticRoutesForService
GetRoutesSettles(k, r) ==
    /\ LinesFrame
    /\ k \in 1..Len(handlers) /\ handlers[k].pc = "getRoutes"
    /\ \E currentRoutes \in {getRoutes(LinesCtx(r))} :
          /\ runTable' = currentRoutes.ctx.table
          /\ IF coverageThrows(currentRoutes.ret)
             THEN handlers' = [handlers EXCEPT ![k].pc = "done"]
             ELSE \E uncoveredIps \in {filterIpsCoveredByOptimizedRoutes(
                                       handlers[k].line.ips, currentRoutes.ret,
                                       ServicePrefix(handlers[k].name)).uncoveredIps} :
                     handlers' = [handlers EXCEPT
                                     ![k].pc = IF Len(uncoveredIps) = 0 THEN "done" ELSE "add",
                                     ![k].ips = uncoveredIps]

\* the promise of api.addStaticRoutesForService settles: .then logs the
\* response, .catch logs the error
AddSettles(k, r) ==
    /\ LinesFrame
    /\ k \in 1..Len(handlers) /\ handlers[k].pc = "add"
    /\ \E added \in {addStaticRoutesForService(LinesCtx(r),
                        Service(handlers[k].ips, handlers[k].interfaces,
                                HostComment(handlers[k].name, handlers[k].line.hostname),
                                -1, -1))} :
          /\ runTable' = added.ctx.table
          /\ handlers' = [handlers EXCEPT
                ![k].pc = "done",
                ![k].batches = @ + tableWrites(added.ctx.log),
                ![k].resp = IF added.ret.exc THEN "thrown"
                            ELSE IF added.ret.bool THEN "true" ELSE "false"]

\* environment: the router never answers the request a handler waits for
RouterSilent(k) ==
    /\ LinesFrame
    /\ k \in 1..Len(handlers) /\ handlers[k].pc \in {"getRoutes", "add"}
    /\ handlers' = [handlers EXCEPT ![k].pc = "hung"]
    /\ UNCHANGED runTable

LinesNext ==
    \/ \E line \in LinesLines : LineEvent(line)
    \/ \E k \in 1..MaxLines : \E r \in LinesModes : GetRoutesSettles(k, r)
    \/ \E k \in 1..MaxLines : \E r \in LinesModes : AddSettles(k, r)
    \/ \E k \in 1..MaxLines : RouterSilent(k)

----------------------------------------------------------------------------
(* DnsOverTlsClient.query (dns-over-tls.ts): one socket or timer event per *)
(* step.  Buffers are sequences of byte values.  The handler of the        *)
(* socket's 'timeout' event never runs, since no socket timeout is set.    *)

MaxStream == 4

Bytes == {0, 1, 2}
DotQueries == {<<1>>, <<2, 1>>}
DotStreams == UNION {[1..n -> Bytes] : n \in 0..MaxStream}
DotErrors == {"handshake", "ECONNRESET"}

\* buf.readUInt16LE(0)
readUInt16LE(buf) == buf[1] + 256 * buf[2]

\* buf.readUInt16BE(0)
readUInt16BE(buf) == 256 * buf[1] + buf[2]

\* lengthPrefix.writeUInt16BE(query.length, 0); Buffer.concat([lengthPrefix, query])
framed(query) == <<Len(query) \div 256, Len(query) % 256>> \o query

\* expectedLength === null && responseBuffer.length >= 2 ? readUInt16BE : kept
lengthSeen(expected, buffer) ==
    IF expected = -1 /\ Len(buffer) >= 2 THEN readUInt16BE(buffer) ELSE expected

\* the test of the 'end' handler without expectedLength === null
incompleteOfKnownLength(expected, buffer) == expected # -1 /\ Len(buffer) < expected + 2

\* expectedLength === null || responseBuffer.length < expectedLength + 2
incomplete(expected, buffer) == expected = -1 \/ Len(buffer) < expected + 2

\* responseBuffer.subarray(2, expectedLength + 2)
dnsMessage(expected, buffer) == SubSeq(buffer, 3, expected + 2)

Resolve(message) == [settle |-> "resolve", message |-> message, error |-> ""]
Reject(error) == [settle |-> "reject", message |-> <<>>, error |-> error]
TimeoutRejection == Reject("DNS over TLS request timeout")
ClosedRejection == Reject("Connection closed before receiving complete response")

\* if (timeoutId) clearTimeout(timeoutId)
cleared(timer) == IF timer = "set" THEN "cleared" ELSE timer

Event(type, chunk, error) == [type |-> type, chunk |-> chunk, error |-> error]

DotInit ==
    /\ dotQuery \in DotQueries
    /\ dotStream \in DotStreams
    /\ dotSocket = "connecting"
    /\ dotWritten = <<>>
    /\ responseBuffer = <<>>
    /\ expectedLength = -1
    /\ timeoutId = "set"
    /\ dotCalls = <<>>
    /\ dotEvents = <<>>

DotFrame == UNCHANGED <<proxyVars, apiVars, dispatchVars, raceVars, optVars, sysVars,
                        jobVars, matchVars>>

\* socket.on('secureConnect')
SecureConnect ==
    /\ DotFrame
    /\ dotSocket = "connecting"
    /\ dotSocket' = "open"
    /\ dotWritten' = dotWritten \o framed(dotQuery)
    /\ dotEvents' = Append(dotEvents, Event("secureConnect", <<>>, ""))
    /\ UNCHANGED <<dotQuery, dotStream, responseBuffer, expectedLength, timeoutId, dotCalls>>

\* socket.on('data'): the next k bytes of the stream arrive as one chunk
SocketData(k) ==
    /\ DotFrame
    /\ dotSocket = "open"
    /\ k \in 1..Len(dotStream)
    /\ dotStream' = SubSeq(dotStream, k + 1, Len(dotStream))
    /\ responseBuffer' = responseBuffer \o SubSeq(dotStream, 1, k)
    /\ expectedLength' = lengthSeen(expectedLength, responseBuffer')
    /\ dotEvents' = Append(dotEvents, Event("data", SubSeq(dotStream, 1, k), ""))
    /\ IF expectedLength' # -1 /\ Len(responseBuffer') >= expectedLength' + 2
       THEN /\ timeoutId' = cleared(timeoutId)
            /\ dotCalls' = Append(dotCalls,
                                  Resolve(dnsMessage(expectedLength', responseBuffer')))
       ELSE UNCHANGED <<timeoutId, dotCalls>>
    /\ UNCHANGED <<dotQuery, dotSocket, dotWritten>>

\* socket.on('error'): the connection or the handshake failed
SocketError(error) ==
    /\ DotFrame
    /\ dotSocket \in {"connecting", "open"}
    /\ (error = "handshake") = (dotSocket = "connecting")
    /\ timeoutId' = cleared(timeoutId)
    /\ dotSocket' = "destroyed"
    /\ dotCalls' = Append(dotCalls, Reject(error))
    /\ dotEvents' = Append(dotEvents, Event("error", <<>>, error))
    /\ UNCHANGED <<dotQuery, dotStream, dotWritten, responseBuffer, expectedLength>>

\* socket.on('end'): the server closed its side
SocketEnd ==
    /\ DotFrame
    /\ dotSocket = "open"
    /\ dotSocket' = "ended"
    /\ timeoutId' = cleared(timeoutId)
    /\ dotCalls' = IF incomplete(expectedLength, responseBuffer)
                   THEN Append(dotCalls, ClosedRejection)
                   ELSE dotCalls
    /\ dotEvents' = Append(dotEvents, Event("end", <<>>, ""))
    /\ UNCHANGED <<dotQuery, dotStream, dotWritten, responseBuffer, expectedLength>>

\* the callback of setTimeout
TimerExpired ==
    /\ DotFrame
    /\ timeoutId = "set"
    /\ timeoutId' = "fired"
    /\ dotSocket' = "destroyed"
    /\ dotCalls' = Append(dotCalls, TimeoutRejection)
    /\ dotEvents' = Append(dotEvents, Event("timer", <<>>, ""))
    /\ UNCHANGED <<dotQuery, dotStream, dotWritten, responseBuffer, expectedLength>>

DotNext ==
    \/ SecureConnect
    \/ \E k \in 1..MaxStream : SocketData(k)
    \/ \E error \in DotErrors : SocketError(error)
    \/ SocketEnd
    \/ TimerExpired

----------------------------------------------------------------------------
(* Specifications *)

ProxyIdle ==
    /\ impl = "part_013" /\ protocol = "udp" /\ hostToIpMap = EmptyMap
    /\ mapLoaded = FALSE /\ listening = TRUE /\ arrived = 0
    /\ req = [s \in Slots |-> FreeReq] /\ responses = [s \in Slots |-> <<>>]
    /\ upstreamSent = {} /\ appendCalls = <<>> /\ logFile = <<>>
    /\ logCreated = TRUE /\ dbRecords = <<>> /\ dbUp = TRUE

ApiIdle ==
    /\ cookies = "" /\ httpLog = <<>> /\ calls = 0 /\ routerRoutes = <<>>
    /\ router = Mode("active", "ok", "ok", "ok")
    /\ lastCall = [op |-> "none", exc |-> FALSE, bool |-> FALSE, list |-> <<>>,
                   service |-> NoService, prefix |-> <<>>, reply |-> NoReply,
                   fetched |-> FALSE, deleted |-> FALSE, sent |-> FALSE]

DispatchIdle ==
    /\ matchers = [defined |-> FALSE, list |-> <<>>]
    /\ services = <<>> /\ tableRoutes = <<>> /\ addCalls = <<>> /\ dispatched = <<>>

RaceIdle == RaceInit
SystemIdle ==
    /\ sysServices = <<>>
    /\ sysTable = <<>>
    /\ sysCookies = ""
    /\ sysCommands = <<>>
    /\ sysSteps = 0
OptimizerIdle ==
    /\ inRoutes = <<>>
    /\ inPrefix = <<>>
    /\ optimized = NoResult
    /\ stats = NoStats
    /\ reoptimized = NoResult
    /\ coverage = NoCoverage

JobIdle ==
    /\ runTable = <<>> /\ runPc = "idle" /\ runSnapshot = <<>>
    /\ runToRemove = <<>> /\ runToAdd = <<>> /\ runCount = 0
    /\ linesPending = <<>> /\ linesStarted = 0 /\ runs = <<>>
    /\ handlers = <<>>
MatcherIdle ==
    /\ matchHostname = <<>> /\ matchPattern = <<>> /\ matchResult = NoMatchResult
DotIdle ==
    /\ dotQuery = <<>> /\ dotStream = <<>> /\ dotSocket = "connecting"
    /\ dotWritten = <<>> /\ responseBuffer = <<>> /\ expectedLength = -1
    /\ timeoutId = "set" /\ dotCalls = <<>> /\ dotEvents = <<>>
OthersIdle == ProxyIdle /\ ApiIdle /\ DispatchIdle /\ RaceIdle /\ OptimizerIdle /\ SystemIdle

\* the server once the log file has been created
InitProxy == ProxyInit /\ ApiIdle /\ DispatchIdle /\ RaceIdle /\ OptimizerIdle /\ SystemIdle
    /\ JobIdle /\ MatcherIdle /\ DotIdle /\ logCreated = TRUE
SpecProxy == InitProxy /\ [][ProxyNext]_vars

\* the server from the end of the constructor, the file creation pending
InitLog == ProxyInit /\ ApiIdle /\ DispatchIdle /\ RaceIdle /\ OptimizerIdle /\ SystemIdle
    /\ JobIdle /\ MatcherIdle /\ DotIdle /\ logCreated = FALSE
SpecLog == InitLog /\ [][LogNext]_vars

InitApi == ApiInit /\ ProxyIdle /\ DispatchIdle /\ RaceIdle /\ OptimizerIdle /\ SystemIdle
    /\ JobIdle /\ MatcherIdle /\ DotIdle
SpecApi == InitApi /\ [][ApiNext]_vars

InitDispatch == DispatchInit /\ ProxyIdle /\ ApiIdle /\ RaceIdle /\ OptimizerIdle /\ SystemIdle
    /\ JobIdle /\ MatcherIdle /\ DotIdle
SpecDispatch == InitDispatch /\ [][DispatchNext]_vars
SpecFirstMatch == InitDispatch /\ [][FirstMatchNext]_vars

InitRace == RaceInit /\ ProxyIdle /\ ApiIdle /\ DispatchIdle /\ OptimizerIdle /\ SystemIdle
    /\ JobIdle /\ MatcherIdle /\ DotIdle
SpecRace == InitRace /\ [][RaceNext]_vars

InitOptimizer == OptimizerInit /\ ProxyIdle /\ ApiIdle /\ DispatchIdle /\ RaceIdle /\ SystemIdle
    /\ JobIdle /\ MatcherIdle /\ DotIdle
SpecOptimizer == InitOptimizer /\ [][OptimizerNext]_vars

InitMatcher == MatcherInit /\ OthersIdle /\ JobIdle /\ DotIdle
SpecMatcher == InitMatcher /\ [][MatcherNext]_vars

InitDot == DotInit /\ OthersIdle /\ JobIdle /\ MatcherIdle
SpecDot == InitDot /\ [][DotNext]_vars

InitJob == JobInit /\ OthersIdle /\ MatcherIdle /\ DotIdle
SpecJob == InitJob /\ [][JobNext]_vars

InitRuns == RunsInit /\ OthersIdle /\ MatcherIdle /\ DotIdle
SpecRuns == InitRuns /\ [][RunsNext]_vars
InitLines == LinesInit /\ OthersIdle /\ MatcherIdle /\ DotIdle
SpecLines == InitLines /\ [][LinesNext]_vars

InitSystem ==
    SystemInit /\ ProxyIdle /\ ApiIdle /\ DispatchIdle /\ RaceIdle /\ OptimizerIdle
    /\ JobIdle /\ MatcherIdle /\ DotIdle
SpecSystem == InitSystem /\ [][SystemNext]_vars

----------------------------------------------------------------------------
(* Properties: dispatcher *)

\* C1: the IP list of every add-route call is free of 0.0.0.0, and an
\* event whose only resolved IP is 0.0.0.0 leads to no add-route call.
C1_NoZeroAddressRouted ==
    \A i \in 1..Len(addCalls) :
        /\ 0 \notin Range(addCalls[i].service.ips)
        /\ dispatched[addCalls[i].event].ips # <<0>>

----------------------------------------------------------------------------
(* Properties: DnsProxy *)

WellFormed(msg) == decode(msg).ok /\ decode(msg).questions # <<>>

Finished(s) == req[s].st = "done"

\* the resolution events logged for datagram s
EventsOf(s) == SeqFilter(LAMBDA e : e.slot = s, appendCalls)

\* the A addresses of a response, in order
AddressesOf(response) ==
    [i \in 1..Cardinality({j \in 1..Len(response.answers) : response.answers[j].type = "A"}) |->
        response.answers[CHOOSE j \in 1..Len(response.answers) :
            /\ response.answers[j].type = "A"
            /\ Cardinality({k \in 1..j : response.answers[k].type = "A"}) = i].data]

UpstreamFailed(s) ==
    /\ s \in upstreamSent
    /\ Finished(s)
    /\ req[s].outcome \in {"failed", "thrown"}

\* C2: a forwarded query whose upstream round trip failed is answered with
\* exactly the SERVFAIL response (query ID, question, flags 0x8182, no
\* answers), and, while the database is reachable, its request record is
\* marked failed with a reason and an elapsed time.
C2_UpstreamFailureAnswered ==
    \A s \in Slots :
        UpstreamFailed(s) =>
            /\ responses[s] =
                  <<[id |-> req[s].msg.id, type |-> "response", flags |-> 33154,
                     questions |-> <<[name |-> req[s].msg.name, type |-> req[s].msg.type,
                                      class |-> "IN"]>>,
                     answers |-> <<>>]>>
            /\ dbUp =>
                  /\ req[s].requestId \in 1..Len(dbRecords)
                  /\ dbRecords[req[s].requestId].status = "failed"
                  /\ dbRecords[req[s].requestId].error_message # "null"
                  /\ dbRecords[req[s].requestId].response_time_ms # "null"

\* C3: every well-formed query whose handling has ended, whatever the
\* upstream did, has received exactly one response.
C3_ExactlyOneResponse ==
    \A s \in Slots :
        (Finished(s) /\ WellFormed(req[s].msg)) => Len(responses[s]) = 1

\* C4: a datagram that does not decode, or has no question, gets no
\* response, no upstream query and no resolution event, and the server
\* keeps listening.
C4_MalformedDropped ==
    \A s \in Slots :
        (Finished(s) /\ ~WellFormed(req[s].msg)) =>
            /\ responses[s] = <<>>
            /\ s \notin upstreamSent
            /\ EventsOf(s) = <<>>
            /\ listening

\* a malformed datagram was dropped and the next datagram was answered
C4_Witness ==
    \E s \in Slots, t \in Slots :
        /\ s < t
        /\ Finished(s) /\ ~WellFormed(req[s].msg)
        /\ Finished(t) /\ Len(responses[t]) = 1

\* C5: when an A query arrives whose name is in the override map, the step
\* that handles it sends nothing upstream and sends one response with the
\* query's ID and question, flags 0x8180 and one A answer per override IP,
\* in the order of the map's entry (the order of the file's line).
C5_OverrideAnswered ==
    [][\A s \in Slots :
          ( /\ req[s].st = "free" /\ req'[s].st # "free"
            /\ req'[s].msg.kind = "query" /\ req'[s].msg.type = "A"
            /\ req'[s].msg.name \in DOMAIN hostToIpMap )
          => /\ s \notin upstreamSent'
             /\ Len(responses'[s]) = 1
             /\ responses'[s][1].id = req'[s].msg.id
             /\ responses'[s][1].flags = 33152
             /\ responses'[s][1].questions =
                   <<[name |-> req'[s].msg.name, type |-> "A", class |-> "IN"]>>
             /\ Len(responses'[s][1].answers) = Len(hostToIpMap[req'[s].msg.name])
             /\ \A i \in 1..Len(responses'[s][1].answers) :
                   /\ responses'[s][1].answers[i].type = "A"
                   /\ responses'[s][1].answers[i].name = req'[s].msg.name
                   /\ responses'[s][1].answers[i].data = hostToIpMap[req'[s].msg.name][i]
      ]_vars

\* an A query for a.c was answered from the last line of the file for a.c
C5_Witness ==
    \E s \in Slots :
        /\ req[s].outcome = "override"
        /\ s \notin upstreamSent
        /\ Len(responses[s]) = 1
        /\ SeqMap(AnswerData, responses[s][1].answers) = <<9, 0, 8>>

----------------------------------------------------------------------------
(* Properties: KeeneticApi *)

\* C7: no request is sent under a failed authentication check.
C7_NoRequestAfterFailedAuth ==
    \A i \in 1..Len(httpLog) : httpLog[i].auth # "failed"

\* C8: an operation whose real request got a status other than 200 (500
\* stands for a network failure) raises nothing.
C8_NeverRaises ==
    (httpLog # <<>> /\ httpLog[Len(httpLog)].status # 200) => ~lastCall.exc

\* C9: removeRoutesByCommentPrefix returns true only if the route table was
\* read and the delete batch, if one was needed, was accepted.
C9_TrueOnlyWhenDone ==
    (lastCall.op = "removeRoutesByCommentPrefix" /\ lastCall.bool) =>
        /\ lastCall.fetched
        /\ lastCall.sent => lastCall.deleted

\* the batches sent by the last operation
BatchesSent == SeqFilter(LAMBDA e : e.body.kind = "batch", httpLog)

\* number of commands of a service, and its k-th command, host-major
CommandCount(service) ==
    IF service.network # -1 /\ service.mask # -1 THEN Len(service.interfaces)
    ELSE Len(service.ips) * Len(service.interfaces)

KthInterface(service, k) == service.interfaces[((k - 1) % Len(service.interfaces)) + 1]

KthTarget(service, k) ==
    IF service.network # -1 /\ service.mask # -1 THEN service.network
    ELSE service.ips[((k - 1) \div Len(service.interfaces)) + 1]

\* what the router reports for the k-th command, taken alone
ExpectedMessage(service, k) ==
    IF KthInterface(service, k) \in RouterInterfaces
    THEN <<"added", ToString(KthTarget(service, k)), KthInterface(service, k)>>
    ELSE <<"rejected", ToString(KthTarget(service, k)), KthInterface(service, k),
           "; ", "no such interface">>

\* C10: addStaticRoutesForService sends exactly one batch, whose commands
\* are the H x I (I for a network target) pairs in host-major,
\* interface-minor order; when the router answers it with the parallel
\* array, the call returns one entry per command, the k-th being the
\* router's messages for the k-th command (the wrapper entries skipped),
\* whether or not other commands were rejected.
C10_PositionalMessages ==
    lastCall.op = "addStaticRoutesForService" =>
        LET service == lastCall.service
            n == CommandCount(service)
        IN  /\ Len(BatchesSent) = 1
            /\ Len(BatchesSent[1].body.commands) = n
            /\ \A k \in 1..n :
                  /\ BatchesSent[1].body.commands[k].interface = KthInterface(service, k)
                  /\ (service.network # -1 /\ service.mask # -1) =>
                        BatchesSent[1].body.commands[k].network = service.network
                  /\ ~(service.network # -1 /\ service.mask # -1) =>
                        BatchesSent[1].body.commands[k].host = KthTarget(service, k)
            /\ (lastCall.reply.status = 200 /\ lastCall.reply.data.kind = "array") =>
                  /\ ~lastCall.exc
                  /\ Len(lastCall.list) = n
                  /\ \A k \in 1..n :
                        /\ lastCall.list[k] =
                              Join(SeqMap(StatusMessage, lastCall.reply.data.items[k + 1].status))
                        /\ lastCall.list[k] = ExpectedMessage(service, k)

\* two hosts on two interfaces, the second interface unknown to the router:
\* four messages, accepted and rejected alternating
C10_Witness ==
    /\ lastCall.op = "addStaticRoutesForService"
    /\ lastCall.service.ips = <<5, 6>>
    /\ ~lastCall.exc
    /\ Len(lastCall.list) = 4
    /\ lastCall.list[1] = <<"added", "5", "wg0">>
    /\ lastCall.list[2][1] = "rejected"
    /\ lastCall.list[3] = <<"added", "6", "wg0">>
    /\ lastCall.list[4][1] = "rejected"

\* C11: every login POST follows a GET /auth answered 401 with a realm R
\* and a challenge C, and its body is the login "u" followed by
\* sha256(C ++ md5("u" ++ ":" ++ R ++ ":" ++ "p")).
C11_LoginHash ==
    \A i \in 1..Len(httpLog) :
        (httpLog[i].path = "/auth" /\ httpLog[i].method = "POST") =>
            /\ i > 1
            /\ httpLog[i - 1].path = "/auth" /\ httpLog[i - 1].method = "GET"
            /\ httpLog[i - 1].status = 401
            /\ httpLog[i].body.kind = "login"
            /\ httpLog[i].body.login =
                  <<"u", "sha256(", httpLog[i - 1].headers.challenge,
                    "md5(", "u", ":", httpLog[i - 1].headers.realm, ":", "p", ")", ")">>

\* a login answering the challenge chal2 of realm2 was sent
C11_Witness ==
    /\ \E i \in 1..Len(httpLog) :
          httpLog[i].body.login =
             <<"u", "sha256(", "chal2", "md5(", "u", ":", "realm2", ":", "p", ")", ")">>
    /\ cookies = "sid2"

----------------------------------------------------------------------------
(* Properties: KeeneticApi under concurrent callers *)

\* every login POST carries the cookie of the 401 whose challenge it hashes
LoginCarriesItsCookie ==
    \A i \in 1..Len(wire) :
        wire[i].kind = "login" => wire[i].cookie = wire[i].challenge

\* C12: every login POST carries the cookie captured from the 401 whose
\* challenge it hashes, and every real request a caller sends after its
\* login was accepted carries the cookie of the session it logged in to.
C12_CookieOfOwnSession ==
    /\ LoginCarriesItsCookie
    /\ \A i \in 1..Len(wire) :
          (wire[i].kind = "real" /\ wire[i].afterLogin) => wire[i].cookie = wire[i].own

----------------------------------------------------------------------------
(* Properties: route optimizer *)

Eligible(r) == r.host # -1 /\ r.hasComment /\ StartsWith(r.comment, inPrefix)

\* ip lies in the block of 2^k addresses that starts at network, mask = -(2^k)
InBlock(ip, network, mask) == ip - (ip % (-mask)) = network

Covers(a, r) == a.interface = r.interface /\ InBlock(r.host, a.network, a.mask)

Returns == optimized.done /\ ~optimized.throws

\* C15: every route of routesToRemove is an eligible host route of the input
\* whose address lies inside a route of routesToAdd on the same interface;
\* the eligible routes kept (not in routesToRemove) together with those a new
\* subnet covers are all the eligible routes of the input.
C15_NoEligibleIpLost ==
    Returns =>
        LET add == Range(optimized.routesToAdd)
            remove == Range(optimized.routesToRemove)
            eligible == {r \in Range(inRoutes) : Eligible(r)}
        IN  /\ \A r \in remove : r \in eligible /\ \E a \in add : Covers(a, r)
            /\ {<<r.interface, r.host>> : r \in eligible} =
                  {<<r.interface, r.host>> : r \in eligible \ remove}
                  \cup {<<r.interface, r.host>> :
                           r \in {e \in eligible : \E a \in add : Covers(a, e)}}
            /\ \A r \in eligible \ remove :
                  r \in Range(applied(inRoutes, optimized))

\* some routes were aggregated and an eligible route was kept
C15_Witness ==
    /\ Returns
    /\ optimized.routesToAdd # <<>>
    /\ \E r \in Range(inRoutes) : Eligible(r) /\ r \notin Range(optimized.routesToRemove)
    /\ \E r \in Range(optimized.routesToRemove) : r.host < 0

\* C16: optimizeRoutes applied to the table with routesToRemove deleted and
\* routesToAdd inserted returns two empty lists.
C16_Idempotent ==
    reoptimized.done =>
        reoptimized.routesToAdd = <<>> /\ reoptimized.routesToRemove = <<>>

\* the second run followed a first run that aggregated two blocks
C16_Witness ==
    reoptimized.done /\ Len(optimized.routesToAdd) >= 2

\* an eligible route of the input on the interface of r, in the /22 block of r
SharesBlock(r, other) ==
    /\ Eligible(other) /\ other # r
    /\ other.interface = r.interface
    /\ InBlock(other.host, r.host - (r.host % 1024), -1024)

\* r is queued for removal and exactly one new route covers it
Aggregated(r) ==
    /\ r \in Range(optimized.routesToRemove)
    /\ Cardinality({j \in 1..Len(optimized.routesToAdd) :
                       Covers(optimized.routesToAdd[j], r)}) = 1

StatsAsStated ==
    /\ (Returns /\ inRoutes = FiveHosts /\ inPrefix = ServicePrefix(SvcS)) =>
          stats = [originalCount |-> 5, optimizedCount |-> 1, reduction |-> 4,
                   reductionPercent |-> 80 * 100]
    /\ (Returns /\ stats.originalCount = 0) => stats.reductionPercent = 0

\* C17 as stated: eligible host routes of one interface that share a /22 block
\* are all queued for removal and covered by exactly one new network route;
\* the statistics of 10.0.0.1 .. 10.0.0.5 on wg0 are 5, 1, 4 and 80 percent,
\* and reductionPercent is 0 when originalCount is 0.
C17_OneRoutePerBlock ==
    /\ Returns =>
          \A r \in Range(inRoutes) :
              (Eligible(r) /\ \E other \in Range(inRoutes) : SharesBlock(r, other))
                  => Aggregated(r)
    /\ StatsAsStated

\* C17 amended: the same for eligible host routes of one interface that share
\* a /22 block with a route of another address.
C17_OneRoutePerBlockOfTwoAddresses ==
    /\ Returns =>
          \A r \in Range(inRoutes) :
              (Eligible(r) /\ \E other \in Range(inRoutes) :
                                 SharesBlock(r, other) /\ other.host # r.host)
                  => Aggregated(r)
    /\ StatsAsStated

\* the five hosts were aggregated into one route
C17_Witness ==
    /\ Returns /\ inRoutes = FiveHosts /\ inPrefix = ServicePrefix(SvcS)
    /\ Len(optimized.routesToAdd) = 1 /\ Len(optimized.routesToRemove) = 5

\* C18: every route of routesToAdd covers at least two distinct addresses of
\* eligible host routes of the input on its interface, routesToRemove has at
\* least twice as many entries as routesToAdd, and with fewer than two eligible
\* host routes both lists are empty.
C18_TwoAddressesPerSubnet ==
    Returns =>
        /\ \A j \in 1..Len(optimized.routesToAdd) :
              Cardinality({r.host : r \in {e \in Range(inRoutes) :
                              Eligible(e) /\ Covers(optimized.routesToAdd[j], e)}}) >= 2
        /\ Len(optimized.routesToRemove) >= 2 * Len(optimized.routesToAdd)
        /\ Len(SeqFilter(Eligible, inRoutes)) < 2 =>
              optimized.routesToAdd = <<>> /\ optimized.routesToRemove = <<>>

\* three subnets were produced from seven host routes
C18_Witness ==
    Returns /\ Len(optimized.routesToAdd) = 3 /\ Len(optimized.routesToRemove) = 6

\* r is an optimized route of the service of inPrefix:
\* its comment is dns-auto:<service>:optimized/<prefix>
OptimizedOfService(r) ==
    /\ r.network # -1 /\ r.mask # -1 /\ r.hasComment
    /\ StartsWith(r.comment, inPrefix \o <<":optimized/">>)

\* C19: the coverage check reports an address covered exactly when it lies
\* inside the network/mask of an optimized route of the service itself; an
\* address inside optimized routes of other services only, or inside none, is
\* reported uncovered.
C19_CoveredIffOwnSubnet ==
    (coverage.done /\ ~coverage.throws) =>
        (coverage.covered <=>
            \E r \in Range(inRoutes) :
                OptimizedOfService(r) /\ InBlock(coverage.ip, r.network, r.mask))

----------------------------------------------------------------------------
(* Properties: dispatcher, optimization job and UI against one router *)

OwnComment(c) == StartsWith(c, <<"dns-auto:">>)

\* the routes of a table that do not carry the dns-auto: prefix
Foreign(table) == SeqFilter(LAMBDA r : ~(r.hasComment /\ OwnComment(r.comment)), table)

\* a delete command names a route of the table whose comment starts with dns-auto:
NamesOwnRoute(e) ==
    /\ OwnComment(e.cmd.comment)
    /\ \E r \in Range(e.before) :
          SameTarget(r, e.cmd) /\ r.hasComment /\ r.comment = e.cmd.comment

\* C13: in every step of the dispatcher, the optimization job and the UI,
\* each delete command sent names a route whose comment starts with
\* dns-auto:, and the routes without that prefix stay in the table as they were.
C13_ForeignRoutesUntouched ==
    [][ /\ \A i \in 1..Len(sysCommands') :
              sysCommands'[i].cmd.no => NamesOwnRoute(sysCommands'[i])
        /\ Foreign(sysTable') = Foreign(sysTable) ]_vars

\* the optimization job and a UI handler both sent deletes, and the manual
\* route is still in the table
C13_Witness ==
    /\ \E i \in 1..Len(sysCommands) :
          sysCommands[i].cmd.no /\ sysCommands[i].path = "optimize"
    /\ \E i \in 1..Len(sysCommands) :
          sysCommands[i].cmd.no /\ sysCommands[i].path \in {"remove-routes", "toggle-enabled"}
    /\ ManualRoute \in Range(sysTable)

\* the comment of an add command has the form of its kind of route
WellTagged(cmd) ==
    \E name \in {SvcS, SvcS2} :
        IF cmd.network # -1 /\ cmd.mask # -1
        THEN \E prefix \in minPrefix..maxPrefix :
                cmd.comment = OptimizedComment(name, prefix) /\ cmd.mask = maskInt(prefix)
        ELSE /\ StartsWith(cmd.comment, ServicePrefix(name) \o <<":">>)
             /\ Len(cmd.comment) > Len(ServicePrefix(name)) + 1

\* C14: every add command sent, by live dispatch, by the optimization job or
\* by the backfill of a new service, carries dns-auto:<service>:<hostname> for
\* a host route and dns-auto:<service>:optimized/<prefix> for a network route.
C14_AddsAreTagged ==
    \A i \in 1..Len(sysCommands) :
        ~sysCommands[i].cmd.no => WellTagged(sysCommands[i].cmd)

\* the table held an optimized route of the service of the command that
\* contains the address of the command
CoveredAtSubmission(e) ==
    \E name \in {SvcS, SvcS2} :
        /\ StartsWith(e.cmd.comment, ServicePrefix(name) \o <<":">>)
        /\ \E r \in Range(e.before) :
              /\ r.network # -1 /\ r.mask # -1 /\ r.hasComment
              /\ StartsWith(r.comment, ServicePrefix(name) \o <<":optimized/">>)
              /\ InBlock(e.cmd.host, r.network, r.mask)

\* C20: the dispatcher never submits a host-route add for an address inside
\* an optimized route of the same service that the router's table holds when
\* the add is submitted.
C20_NoCoveredAddressSubmitted ==
    \A i \in 1..Len(sysCommands) :
        (sysCommands[i].path = "dispatch" /\ ~sysCommands[i].cmd.no
            /\ sysCommands[i].cmd.host # -1)
        => ~CoveredAtSubmission(sysCommands[i])

----------------------------------------------------------------------------
(* Properties: the optimization job interleaved with dispatch *)

HostOfService(r, name) ==
    /\ r.host # -1 /\ r.hasComment
    /\ StartsWith(r.comment, ServicePrefix(name) \o <<":">>)

AggregateOfService(r, name) ==
    /\ r.network # -1 /\ r.mask # -1 /\ r.hasComment
    /\ StartsWith(r.comment, ServicePrefix(name) \o <<":optimized/">>)

\* the table holds a host route of the service inside one of the service's
\* optimized routes on the same interface
Subsumed(table, name) ==
    \E i, j \in 1..Len(table) :
        /\ HostOfService(table[i], name)
        /\ AggregateOfService(table[j], name)
        /\ table[i].interface = table[j].interface
        /\ ipInNetwork(table[i].host, table[j].network, table[j].mask)

\* C21: at the step that completes an optimization run, whatever dispatch
\* handlers ran in between, the router table holds no host route of the
\* service whose IP lies inside an optimized route of the service on the
\* same interface.
C21_NoSubsumedHostAfterRun ==
    [][runPc # "done" /\ runPc' = "done" => ~Subsumed(runTable', SvcS)]_vars

----------------------------------------------------------------------------
(* Properties: domain matcher *)

NoLineTerminator(run) == \A i \in 1..Len(run) : ~LineTerminator(run[i])

\* the whole domain is the pattern with each * replaced by a run of
\* characters (any run, or any run without line terminators) and every
\* other character by itself, letter case disregarded
RECURSIVE Reads(_, _, _)
Reads(domain, pattern, anyRun) ==
    IF pattern = <<>> THEN domain = <<>>
    ELSE IF Head(pattern) = "*"
    THEN \E k \in 0..Len(domain) :
            /\ anyRun \/ NoLineTerminator(SubSeq(domain, 1, k))
            /\ Reads(SubSeq(domain, k + 1, Len(domain)), Tail(pattern), anyRun)
    ELSE /\ domain # <<>>
         /\ Lower(Head(domain)) = Lower(Head(pattern))
         /\ Reads(Tail(domain), Tail(pattern), anyRun)

LowerAll(s) == [i \in 1..Len(s) |-> Lower(s[i])]

\* C22 as stated: wildcardDomainMatch holds exactly when the whole domain
\* is the pattern with each * standing for any possibly empty character
\* sequence and every other character for itself, letter case disregarded;
\* without * this is case-insensitive equality.
C22_StarIsAnySequence ==
    matchResult.done =>
        /\ matchResult.wildcard = Reads(matchHostname, matchPattern, TRUE)
        /\ ("*" \notin Range(matchPattern) =>
               (matchResult.wildcard <=> LowerAll(matchHostname) = LowerAll(matchPattern)))

\* C22 amended: each * stands for any possibly empty sequence of characters
\* other than line terminators.
C22_StarIsAnySequenceWithoutLineTerminator ==
    matchResult.done =>
        /\ matchResult.wildcard = Reads(matchHostname, matchPattern, FALSE)
        /\ ("*" \notin Range(matchPattern) =>
               (matchResult.wildcard <=> LowerAll(matchHostname) = LowerAll(matchPattern)))

\* a * has stood for a run with a dot, and letters of different case have
\* been taken as equal
C22_Witness ==
    /\ matchResult.done /\ matchResult.wildcard
    /\ matchPattern = <<"*", "a">>
    /\ matchHostname = <<".", ".", "A">>
\* the pattern is *.X
StarDot(pattern) == StartsWith(pattern, <<"*", ".">>)
AfterStarDot(pattern) == SubSeq(pattern, 3, Len(pattern))

\* C23 as stated: for a pattern *.X, wildcardDomainMatch holds if and only
\* if the domain equals X or ends with "." followed by X.
C23_StarDotMatchesApexAndSubdomains ==
    matchResult.done /\ StarDot(matchPattern) =>
        (matchResult.wildcard <=>
            \/ matchHostname = AfterStarDot(matchPattern)
            \/ EndsWith(matchHostname, <<".">> \o AfterStarDot(matchPattern)))

\* the domain is a run without line terminators followed by "." and X,
\* letter case disregarded
EndsWithDotAnd(domain, x) ==
    \E k \in 0..Len(domain) :
        /\ NoLineTerminator(SubSeq(domain, 1, k))
        /\ LowerAll(SubSeq(domain, k + 1, Len(domain))) = LowerAll(<<".">> \o x)

\* C23 amended: for a pattern *.X with no * in X, wildcardDomainMatch
\* holds if and only if the domain ends, letter case disregarded, with "."
\* followed by X and has no line terminator before that; the domain X itself
\* does not match.
C23_StarDotMatchesSubdomainsOnly ==
    matchResult.done /\ StarDot(matchPattern)
            /\ "*" \notin Range(AfterStarDot(matchPattern)) =>
        /\ matchResult.wildcard <=> EndsWithDotAnd(matchHostname, AfterStarDot(matchPattern))
        /\ matchHostname = AfterStarDot(matchPattern) => ~matchResult.wildcard

\* a.A has been matched against *.a
C23_Witness ==
    /\ matchResult.done /\ matchResult.wildcard
    /\ matchPattern = <<"*", ".", "a">>
    /\ matchHostname = <<"a", ".", "A">>

\* C24 as stated: for every domain X matched against *.X the wildcard rule
\* says no, the stars-stripped rule says yes, and the dispatcher's matcher
\* reports a match.
C24_ApexMatchedByStrippedRule ==
    matchResult.done /\ matchPattern = <<"*", ".">> \o matchHostname =>
        ~matchResult.wildcard /\ matchResult.stripped /\ matchResult.match

\* C24 amended: the same for every domain X that holds no *.
C24_StarFreeApexMatchedByStrippedRule ==
    matchResult.done /\ matchPattern = <<"*", ".">> \o matchHostname
            /\ "*" \notin Range(matchHostname) =>
        ~matchResult.wildcard /\ matchResult.stripped /\ matchResult.match

\* a has been matched against *.a
C24_Witness ==
    /\ matchResult.done /\ matchResult.match
    /\ matchHostname = <<"a">>
    /\ matchPattern = <<"*", ".", "a">>

\* the strings that differ from s in letter case only
CaseVariants(s) == {t \in [1..Len(s) -> HostChars] : LowerAll(t) = LowerAll(s)}

\* C25: changing the letter case of the host name or of the pattern never
\* changes whether the dispatcher's matcher reports a match.
C25_MatchIgnoresCase ==
    matchResult.done =>
        \A hostname \in CaseVariants(matchHostname) :
            \A pattern \in CaseVariants(matchPattern) :
                matches(hostname, pattern) = matchResult.match

----------------------------------------------------------------------------
(* Properties: first match wins *)

\* the first matcher, in list order, whose pattern matches the host name
FirstMatching(list, hostname) ==
    {i \in 1..Len(list) :
        /\ matches(hostname, list[i].pattern)
        /\ \A j \in 1..(i - 1) : ~matches(hostname, list[j].pattern)}

EnabledInRegistry(name) ==
    \E i \in 1..Len(services) : services[i].name = name /\ services[i].enabled

\* the add-route calls made by the step
NewAddCalls == SubSeq(addCalls', Len(addCalls) + 1, Len(addCalls'))

\* C26: handling one resolution event makes at most one add-route call; a
\* call made is for the service and interfaces of the first matcher in list
\* order whose pattern matches the host name, and that service is enabled in
\* the registry; if that service is disabled or absent no call is made,
\* whatever later matchers match.
C26_FirstMatchDecides ==
    [][Len(dispatched') = Len(dispatched) + 1 =>
          LET line == dispatched'[Len(dispatched')]
              first == FirstMatching(matchers.list, line.hostname)
          IN  /\ Len(NewAddCalls) <= 1
              /\ \A i \in 1..Len(NewAddCalls) : \E m \in first :
                    /\ NewAddCalls[i].service.interfaces = matchers.list[m].interfaces
                    /\ NewAddCalls[i].service.comment =
                          HostComment(matchers.list[m].name, line.hostname)
                    /\ EnabledInRegistry(matchers.list[m].name)
              /\ (\A m \in first : ~EnabledInRegistry(matchers.list[m].name))
                    => NewAddCalls = <<>>]_vars

\* an event for a.c was dropped because the service of the first matcher,
\* *.c, is disabled, while the matcher a.c of another, enabled service is
\* later in the list; and another event led to a call
C26_Witness ==
    /\ \E k \in 1..Len(dispatched) :
          /\ dispatched[k].outcome = "disabled" /\ dispatched[k].hostname = NameA
          /\ \A c \in Range(addCalls) : c.event # k
    /\ Len(matchers.list) >= 2
    /\ matchers.list[1].name = SvcS /\ ~EnabledInRegistry(SvcS)
    /\ \E j \in 2..Len(matchers.list) :
          matchers.list[j].name = SvcT /\ matches(NameA, matchers.list[j].pattern)
    /\ addCalls # <<>>

----------------------------------------------------------------------------
(* Properties: DNS over TLS client *)

\* the bytes the first k events brought
Received(k) == FlatMap(LAMBDA e : e.chunk, SubSeq(dotEvents, 1, k))

\* the length a response declares in its first two bytes, big-endian
Declared(bytes) == 256 * bytes[1] + bytes[2]

\* the bytes hold the two length bytes and the message they declare
Complete(bytes) == Len(bytes) >= 2 /\ Len(bytes) >= 2 + Declared(bytes)

\* event k decides the query: the timer, an error, the end of a connection
\* that has not brought a complete response, or the chunk that completes it
Deciding(k) ==
    \/ dotEvents[k].type \in {"timer", "error"}
    \/ dotEvents[k].type = "end" /\ ~Complete(Received(k))
    \/ dotEvents[k].type = "data" /\ Complete(Received(k))

Decision(k) ==
    CASE dotEvents[k].type = "timer" -> TimeoutRejection
      [] dotEvents[k].type = "error" -> Reject(dotEvents[k].error)
      [] dotEvents[k].type = "end" -> ClosedRejection
      [] OTHER -> Resolve(SubSeq(Received(k), 3, 2 + Declared(Received(k))))

\* C27: the promise of a query is unsettled until the first deciding event
\* and settled by it: with a timeout error if the timer expired first, with
\* the socket's error if the connection or handshake failed first, with a
\* connection-closed error if the server closed before the declared length
\* had arrived, and with the message only once it is complete; the three
\* errors differ.
C27_SettledByFirstCause ==
    LET deciding == {k \in 1..Len(dotEvents) : Deciding(k)}
    IN  /\ IF deciding = {} THEN dotCalls = <<>>
           ELSE /\ dotCalls # <<>>
                /\ dotCalls[1] = Decision(CHOOSE k \in deciding : \A j \in deciding : k <= j)
        /\ TimeoutRejection # ClosedRejection
        /\ \A error \in DotErrors : Reject(error) \notin {TimeoutRejection, ClosedRejection}

\* the server closed after part of a response whose length was known, and
\* the query was rejected with the connection-closed error
C27_Witness ==
    /\ dotCalls # <<>> /\ dotCalls[1] = ClosedRejection
    /\ expectedLength # -1 /\ dotSocket = "ended"

\* the response stream as the server sends it
FullStream == responseBuffer \o dotStream

\* C28: however the stream is split into chunks, a query resolves only when
\* 2 + N bytes have arrived, N being the big-endian value of the first two
\* bytes, it resolves as soon as they have, with bytes 2 to 2+N of the
\* stream; what is written to the socket is the 2-byte big-endian length of
\* the query followed by the query.
C28_FramedBothWays ==
    /\ dotCalls # <<>> /\ dotCalls[1].settle = "resolve" =>
          /\ Complete(responseBuffer)
          /\ dotCalls[1].message = SubSeq(FullStream, 3, 2 + Declared(FullStream))
    /\ (\A k \in 1..Len(dotEvents) : dotEvents[k].type \in {"secureConnect", "data"})
            /\ Complete(responseBuffer) =>
          dotCalls # <<>> /\ dotCalls[1].settle = "resolve"
    /\ dotWritten =
          IF \E k \in 1..Len(dotEvents) : dotEvents[k].type = "secureConnect"
          THEN <<Len(dotQuery) \div 256, Len(dotQuery) % 256>> \o dotQuery
          ELSE <<>>

\* a response that came as a chunk of one byte followed by others has been
\* resolved with its message
C28_Witness ==
    /\ dotCalls # <<>> /\ dotCalls[1].settle = "resolve" /\ dotCalls[1].message # <<>>
    /\ Len(dotEvents) >= 3
    /\ dotEvents[2].type = "data" /\ Len(dotEvents[2].chunk) = 1

----------------------------------------------------------------------------
(* Properties: the removal step of the optimization job *)

\* the address keeps a route on the interface: a host route, or an optimized
\* route of the service that contains it
Routed(table, ip, iface, name) ==
    \E r \in Range(table) :
        /\ r.interface = iface
        /\ \/ r.host = ip
           \/ AggregateOfService(r, name) /\ ipInNetwork(ip, r.network, r.mask)

\* C29: a removal step of a run deletes the host route at the head of the
\* queue and no other route; and when the run completes every address that
\* had a host route of the service when the run read the table is still
\* routed on its interface, by a host route or by an optimized route.
C29_RemovesQueuedOnly ==
    [][/\ runPc = "running" /\ runToRemove # <<>> /\ runToRemove' = Tail(runToRemove) =>
             Range(runTable) \ Range(runTable') \subseteq {Head(runToRemove)}
       /\ runPc # "done" /\ runPc' = "done" =>
             \A r \in Range(runSnapshot) :
                 HostOfService(r, SvcS) => Routed(runTable', r.host, r.interface, SvcS)]_vars

----------------------------------------------------------------------------
(* Properties: services kept apart *)

RouteOfService(r, name) ==
    r.hasComment /\ StartsWith(r.comment, ServicePrefix(name) \o <<":">>)

\* linesPending without its k-th handler
WithoutHandler(k) ==
    SubSeq(linesPending, 1, k - 1) \o SubSeq(linesPending, k + 1, Len(linesPending))

\* C30: the optimization run and the dispatch handlers of service s queue
\* for removal routes of s only, remove no route of another service, and
\* leave no resolved address unrouted that only an optimized route of
\* another service contains.
C30_ServicesKeptApart ==
    [][/\ \A r \in Range(runToRemove') : RouteOfService(r, SvcS)
       /\ \A r \in Range(runTable) : ~RouteOfService(r, SvcS) => r \in Range(runTable')
       /\ Len(linesPending') < Len(linesPending) =>
             \E k \in 1..Len(linesPending) :
                 /\ linesPending' = WithoutHandler(k)
                 /\ \A i \in 1..Len(linesPending[k].ips) :
                       LET ip == linesPending[k].ips[i]
                       IN  (\A r \in Range(linesPending[k].currentRoutes) :
                               ~(AggregateOfService(r, SvcS)
                                 /\ ipInNetwork(ip, r.network, r.mask)))
                           => \E r \in Range(runTable') : r.host = ip]_vars

----------------------------------------------------------------------------
(* Properties: routes of other origin *)

\* the routes of the table that carry the comment prefix
OwnRoutes(routes, serviceCommentPrefix) ==
    SeqFilter(LAMBDA r : r.hasComment /\ StartsWith(r.comment, serviceCommentPrefix), routes)

\* C31: routes that do not carry the service's comment prefix, routes
\* without comment included, are ignored: optimizeRoutes and the coverage
\* check do not fail on a table that holds them and return what they
\* return on the table without them.
C31_ForeignRoutesIgnored ==
    /\ optimized.done =>
          /\ ~optimized.throws
          /\ \E own \in {optimizeRoutes(OwnRoutes(inRoutes, inPrefix), inPrefix)} :
                /\ optimized.routesToAdd = own.routesToAdd
                /\ optimized.routesToRemove = own.routesToRemove
    /\ coverage.done =>
          /\ ~coverage.throws
          /\ coverage.covered =
                isIpCoveredByOptimizedRoutes(coverage.ip, OwnRoutes(inRoutes, inPrefix),
                                             inPrefix)

----------------------------------------------------------------------------
(* Properties: the aggregation loop *)

\* the host routes optimizeRoutes keeps for the service
ServiceHostRoutes(routes, serviceCommentPrefix) ==
    SeqFilter(LAMBDA r : r.host # -1 /\ r.hasComment
                         /\ StartsWith(r.comment, serviceCommentPrefix), routes)

\* the iterations of the while loop: the remaining addresses at the head of
\* each one and the subnet findOptimalSubnet returns for them
RECURSIVE LoopSteps(_)
LoopSteps(remainingIps) ==
    IF Len(remainingIps) < 2 THEN <<>>
    ELSE With(findOptimalSubnet(remainingIps), LAMBDA subnet :
         IF ~subnet.found THEN <<[remainingIps |-> remainingIps, subnet |-> subnet]>>
         ELSE <<[remainingIps |-> remainingIps, subnet |-> subnet]>>
              \o LoopSteps(SeqFilter(LAMBDA ip : ip \notin Range(subnet.ips),
                                     remainingIps)))

\* the addresses of ips that agree with baseIp on the first prefix bits
CoveredBy(ips, baseIp, prefix) ==
    SeqFilter(LAMBDA ip : ip \div 2 ^ (32 - prefix) = baseIp \div 2 ^ (32 - prefix), ips)

\* the largest number of addresses of ips in one candidate subnet
MaxCoverage(ips) ==
    With({Len(CoveredBy(ips, ips[k], prefix)) :
              k \in 1..Len(ips), prefix \in minPrefix..maxPrefix} \cup {0},
         LAMBDA counts : CHOOSE n \in counts : \A m \in counts : m <= n)

StepIsOptimal(step) ==
    \E best \in {MaxCoverage(step.remainingIps)} :
        IF best < 2 THEN ~step.subnet.found
        ELSE /\ step.subnet.found
             /\ Len(step.subnet.ips) = best
             /\ step.subnet.prefix \in minPrefix..maxPrefix
             /\ \E k \in 1..Len(step.remainingIps) :
                   step.subnet.ips =
                       CoveredBy(step.remainingIps, step.remainingIps[k], step.subnet.prefix)

\* the iterations that add a route
Aggregations(steps) == Cardinality({k \in 1..Len(steps) : steps[k].subnet.found})

RECURSIVE SumOf(_)
SumOf(s) == IF s = <<>> THEN 0 ELSE Head(s) + SumOf(Tail(s))

\* the loops of one call of optimizeRoutes, one per interface
Loops ==
    With(ServiceHostRoutes(inRoutes, inPrefix), LAMBDA serviceRoutes :
        IF Len(serviceRoutes) < 2 THEN <<>>
        ELSE SeqMap(LAMBDA entry : LoopSteps(entry.ips),
                    groupRoutesByInterface(serviceRoutes)))

\* C32: at every iteration of the aggregation loop of an interface the
\* subnet chosen covers as many of the remaining addresses as any candidate
\* (a remaining address as base, a prefix from 22 to 30) covers, the loop
\* ends at the first iteration at which no candidate covers two remaining
\* addresses, and every iteration before it adds one route.
C32_GreedyMaximumCoverage ==
    (optimized.done /\ ~optimized.throws) =>
        \E loops \in {Loops} :
            /\ \A i \in 1..Len(loops) : \A k \in 1..Len(loops[i]) :
                  /\ StepIsOptimal(loops[i][k])
                  /\ k < Len(loops[i]) => loops[i][k].subnet.found
            /\ Len(optimized.routesToAdd) =
                  SumOf([i \in 1..Len(loops) |-> Aggregations(loops[i])])

\* an interface whose loop aggregates twice and whose first subnet leaves
\* addresses out
C32_Witness ==
    /\ optimized.done /\ ~optimized.throws
    /\ \E i \in 1..Len(Loops) :
          /\ Aggregations(Loops[i]) >= 2
          /\ Len(Loops[i][1].subnet.ips) < Len(Loops[i][1].remainingIps)

----------------------------------------------------------------------------
(* Properties: the prefix of aggregate routes *)

\* C38: every route optimizeRoutes adds is a /22: its mask is 255.255.252.0,
\* its network is a multiple of 1024 addresses and its comment names
\* prefix 22; no prefix from 23 to 30 is ever chosen.
C38_AlwaysPrefix22 ==
    (optimized.done /\ ~optimized.throws) =>
        \A i \in 1..Len(optimized.routesToAdd) :
            LET r == optimized.routesToAdd[i]
            IN  /\ r.mask = Ip(255, 255, 252, 0)
                /\ r.network % 1024 = 0
                /\ r.comment = inPrefix \o <<":optimized/", "22">>

\* a route is added for addresses that a /30 would hold as well
C38_Witness ==
    /\ optimized.done /\ ~optimized.throws
    /\ optimized.routesToAdd # <<>>
    /\ \A i, j \in 1..Len(optimized.routesToRemove) :
          /\ optimized.routesToRemove[i].host \div 4 = optimized.routesToRemove[j].host \div 4
          /\ optimized.routesToRemove[i].interface = optimized.routesToRemove[j].interface

----------------------------------------------------------------------------
(* Properties: one run of ensureAuthenticated *)

IsAuthGet(e) == e.method = "GET" /\ e.path = "/auth"
IsAuthPost(e) == e.method = "POST" /\ e.path = "/auth"
Challenged(e) == e.status = 401 /\ e.headers.realm # "" /\ e.headers.challenge # ""

\* C36: a run of ensureAuthenticated sends one GET /auth, then at most one
\* POST /auth and nothing else; the POST follows only a 401 that carries
\* realm and challenge; the run returns true exactly when the GET or the
\* POST was answered 200; after a 401 that lacks realm or challenge no POST
\* is sent and this.cookies is what it was when the GET was sent.
C36_OneAuthRun ==
    lastCall.op = "ensureAuthenticated" =>
        /\ Len(httpLog) \in {1, 2}
        /\ IsAuthGet(httpLog[1])
        /\ Len(httpLog) = 2 => IsAuthPost(httpLog[2]) /\ Challenged(httpLog[1])
        /\ lastCall.bool <=> \/ httpLog[1].status = 200
                             \/ Len(httpLog) = 2 /\ httpLog[2].status = 200
        /\ (httpLog[1].status = 401 /\ ~Challenged(httpLog[1])) =>
              Len(httpLog) = 1 /\ cookies = httpLog[1].cookie

\* a 401 without challenge that offers a cookie other than the stored one
C36_Witness ==
    /\ lastCall.op = "ensureAuthenticated"
    /\ httpLog[1].status = 401 /\ ~Challenged(httpLog[1])
    /\ httpLog[1].cookie # ""
    /\ httpLog[1].headers.setCookie \notin {"", httpLog[1].cookie}

----------------------------------------------------------------------------
(* Properties: the event log is append-only *)

\* C37: no step of the proxy removes or changes a line that is in the
\* resolution event log: the log before a step is a prefix of the log
\* after it.
C37_AppendOnly ==
    [][/\ Len(logFile') >= Len(logFile)
       /\ SubSeq(logFile', 1, Len(logFile)) = logFile]_vars

----------------------------------------------------------------------------
(* Properties: one optimization run *)

\* the registry holds an enabled service with optimizeRoutes whose prefix
\* the comment carries
EligibleIn(registry, comment) ==
    \E k \in 1..Len(registry) :
        /\ registry[k].enabled /\ registry[k].optimizeRoutes
        /\ StartsWith(comment, ServicePrefix(registry[k].name))

\* the run made a client call in this step
Called(i, op) == runs'[i] # runs[i] /\ runs'[i].last = op

\* the route the client call of this step is about
RouteOfCall(i) ==
    IF runs'[i].last = "remove" THEN Head(runs[i].toRemove) ELSE Head(runs[i].toAdd)

RunRules(i) ==
    \* only services that are enabled and have optimizeRoutes lead to writes
    /\ runs'[i].writes > 0 => EligibleIn(runs[i].registry, RouteOfCall(i).comment)
    \* every service is worked on from the routes the run read first
    /\ runs[i].pc # "fetch" => runs'[i].allRoutes = runs[i].allRoutes
    \* no addition before the last removal has returned, and a removal
    \* leaves the additions of the service as they are
    /\ Called(i, "add") => runs[i].toRemove = <<>>
    /\ Called(i, "remove") =>
          /\ runs'[i].toRemove = Tail(runs[i].toRemove)
          /\ runs'[i].toAdd = runs[i].toAdd /\ runs'[i].services = runs[i].services
    \* when the loop comes to a service, what is to do for it is what
    \* optimizeRoutes gives on the routes the run read
    /\ (runs'[i].pc = "work" /\ (runs[i].pc = "fetch"
                                 \/ runs'[i].services # runs[i].services)) =>
          \E result \in {optimizeRoutes(runs'[i].allRoutes,
                                        ServicePrefix(Head(runs'[i].services).name))} :
             /\ runs'[i].toRemove = result.routesToRemove
             /\ runs'[i].toAdd = result.routesToAdd

\* the runs that took this step
Stepped == {i \in 1..Len(runs) : runs'[i] # runs[i]}

\* C34 as stated: in a run the route table is read from the router once,
\* only enabled services with optimizeRoutes lead to router writes, and for
\* each such service the removal calls are over before the first addition
\* call is made.
C34_TableReadOnce ==
    [][\A i \in Stepped :
          /\ runs'[i].fetches <= 1
          /\ runs'[i].reads = (IF Called(i, "getRoutes") THEN 1 ELSE 0)
          /\ RunRules(i)]_vars

\* C34: a run calls api.getRoutes() once and works on every service from
\* that result, each removal call reading the table once more inside the
\* client; only enabled services with optimizeRoutes lead to router writes;
\* for each such service the removal calls are over before the first
\* addition call is made.
C34_OneSnapshotRemovalsFirst ==
    [][\A i \in Stepped :
          /\ runs'[i].fetches <= 1
          /\ runs'[i].reads =
                (IF Called(i, "getRoutes") \/ Called(i, "remove") THEN 1 ELSE 0)
          /\ RunRules(i)]_vars

\* a run has gone through the removals and additions of two services, and
\* a run that read a registry without eligible service has returned
C34_Witness ==
    \E i, j \in 1..Len(runs) :
        /\ runs[i].pc = "done" /\ runs[i].last = "add" /\ Len(runs[i].services) = 0
        /\ \A k \in 1..2 : EligibleIn(runs[i].registry, ServicePrefix(runs[i].registry[k].name))
        /\ \E r \in Range(runTable) : r.comment = OptimizedComment(SvcS, 22)
        /\ \E r \in Range(runTable) : r.comment = OptimizedComment(SvcT, 22)
        /\ runs[j].pc = "done" /\ runs[j].last = "none"

----------------------------------------------------------------------------
(* runs of optimizeServiceRoutes side by side                              *)

\* the runs that have started and have router calls left to make
InProgress == {i \in 1..Len(runs) : runs[i].pc \in {"fetch", "work"}}

\* the runs that apply removals or additions computed from the routes they
\* read
Applying == {i \in 1..Len(runs) : runs[i].pc = "work"}

\* C40: at most one optimization run is in progress at any time, and no two
\* runs apply removals or additions computed from the same route-table
\* snapshot
C40_OneRunAtATime ==
    /\ Cardinality(InProgress) <= 1
    /\ \A i \in Applying : \A j \in Applying :
          i # j => runs[i].allRoutes # runs[j].allRoutes

----------------------------------------------------------------------------
(* the matcher list a lookup sees                                          *)

\* a step in which onLine comes to matchers.find for a line it could parse
Lookup ==
    /\ Len(dispatched') = Len(dispatched) + 1
    /\ dispatched'[Len(dispatched')].ok

\* the registries getAllServices can return: the initial ones and what the
\* UI makes of them
RegistryStates ==
    {[registry EXCEPT ![1].enabled = en] : registry \in Registries, en \in BOOLEAN}

\* C39: every resolution event is matched against a defined list, the first
\* matcher refresh has completed before the dispatcher looks the list up
C39_LookupAfterFirstRefresh == [][Lookup => matchers.defined]_vars

\* C33: every matcher lookup sees a list that is the complete flattening, one
\* entry per enabled service and pattern, of a single registry read
C33_LookupSeesOneRead ==
    [][Lookup => \E registry \in RegistryStates :
                    matchers = [defined |-> TRUE, list |-> flattenMatchers(registry)]]_vars

----------------------------------------------------------------------------
(* router calls of one resolution event and the events after it            *)

\* the handlers whose router call failed or is never answered
Stuck == {k \in 1..Len(handlers) : \/ handlers[k].pc = "hung"
                                     \/ handlers[k].resp \in {"false", "thrown"}}

\* C35: a router call of one resolution event that fails or never returns
\* does not keep the next line from starting its handler, and no event has
\* its route batch posted a second time: a failed addition is the end of
\* its handler
C35_NoBlockingNoRetry ==
    /\ Len(handlers) < MaxLines => \A line \in LinesLines : ENABLED LineEvent(line)
    /\ \A k \in 1..Len(handlers) :
          /\ handlers[k].batches <= 1
          /\ handlers[k].resp # "none" => handlers[k].pc = "done"

\* the first event's router call never returned, the event after it was
\* dispatched and its addition, refused by the router, was posted once
C35_Witness ==
    /\ Len(handlers) >= 2
    /\ handlers[1].pc = "hung"
    /\ handlers[2].resp = "false" /\ handlers[2].batches = 1

====
